---- MODULE Spec2Model ----
(***************************************************************************)
(* Model of the local agent gateway (src-tauri/src): the sliding-window    *)
(* rate limiter, the proxy_handler policy pipeline and the DLP engine      *)
(* (placeholder minting, redaction, un-redaction).                         *)
(*                                                                         *)
(* Text is modelled as a sequence of Unicode code points (Rust `chars()`). *)
(* 64-bit unsigned values are sequences of 8 little-endian bytes so that   *)
(* wrapping arithmetic keeps its width.                                    *)
(***************************************************************************)
EXTENDS Integers, Sequences, FiniteSets, TLC

\* ------------------------------------------------------------------------
\* Bounds of the model
\* ------------------------------------------------------------------------
MaxLen == 3
MaxId == 3

\* ------------------------------------------------------------------------
\* Characters (code points) and their classes          dlp.rs:309-324
\* ------------------------------------------------------------------------
is_ascii_lowercase(c) == c >= 97 /\ c <= 122
is_ascii_uppercase(c) == c >= 65 /\ c <= 90
is_ascii_digit(c) == c >= 48 /\ c <= 57

\* F applied to the value of e. TLC passes operator arguments and LET
\* definitions by name; Once computes e a single time, as the code computes
\* a `let` binding once.
Once(e, F(_)) == CHOOSE v \in {F(x) : x \in {e}} : TRUE

\* ------------------------------------------------------------------------
\* u64 arithmetic on 8 little-endian bytes
\* ------------------------------------------------------------------------
\* 6364136223846793005 = 0x5851F42D4C957F2D, least significant byte first
LcgMultiplier == <<45, 127, 149, 76, 45, 244, 81, 88>>

RECURSIVE ColumnSum(_, _, _)
\* sum of a[i+1] * LcgMultiplier[k-i+1] for i in 0..j : column k of the product
ColumnSum(a, k, j) ==
    IF j < 0 THEN 0
    ELSE a[j + 1] * LcgMultiplier[k - j + 1] + ColumnSum(a, k, j - 1)

RECURSIVE WrappingLimbs(_, _, _)
WrappingLimbs(a, k, carry) ==
    IF k = 8 THEN <<>>
    ELSE Once(ColumnSum(a, k, k) + carry,
              LAMBDA t : <<t % 256>> \o WrappingLimbs(a, k + 1, t \div 256))

\* seed.wrapping_mul(6364136223846793005).wrapping_add(1), modulo 2^64
next_rand(seed) == WrappingLimbs(seed, 0, 1)

RECURSIVE ModFrom(_, _, _, _)
ModFrom(a, i, n, r) ==
    IF i = 0 THEN r ELSE ModFrom(a, i - 1, n, (r * 256 + a[i]) % n)

\* (u64 value) % n
U64Mod(a, n) == ModFrom(a, 8, n, 0)

\* DefaultHasher (SipHash-1-3, zero keys) of the u32 id, as 8 LE bytes
HashOfId ==
    <<  <<144, 112, 123, 195, 116, 44, 46, 24>>,
        <<145, 250, 236, 105, 143, 107, 184, 226>>,
        <<30, 202, 179, 86, 2, 100, 226, 7>>,
        <<36, 92, 128, 96, 129, 188, 2, 216>>,
        <<111, 0, 2, 23, 104, 21, 201, 205>>,
        <<163, 243, 222, 233, 156, 153, 36, 38>>,
        <<234, 47, 189, 7, 152, 23, 35, 193>>,
        <<199, 236, 167, 63, 150, 107, 218, 242>>,
        <<127, 181, 30, 105, 117, 187, 238, 233>>,
        <<167, 184, 115, 205, 182, 239, 164, 102>>,
        <<45, 77, 144, 181, 121, 27, 243, 217>>,
        <<41, 214, 115, 250, 13, 8, 26, 248>> >>

\* ------------------------------------------------------------------------
\* create_placeholder                                   dlp.rs:291-329
\* ------------------------------------------------------------------------
RECURSIVE PlaceholderChars(_, _)
PlaceholderChars(seed, s) ==
    IF s = <<>> THEN <<>>
    ELSE Once(next_rand(seed), LAMBDA n :
           LET c == Head(s)
           IN  IF is_ascii_lowercase(c)
                 THEN <<97 + U64Mod(n, 26)>> \o PlaceholderChars(n, Tail(s))
               ELSE IF is_ascii_uppercase(c)
                 THEN <<65 + U64Mod(n, 26)>> \o PlaceholderChars(n, Tail(s))
               ELSE IF is_ascii_digit(c)
                 THEN <<48 + U64Mod(n, 10)>> \o PlaceholderChars(n, Tail(s))
               ELSE <<c>> \o PlaceholderChars(seed, Tail(s)))

RECURSIVE PlaceholderCharsAnyLetter(_, _)
\* create_placeholder drawing every replacement among the lowercase letters
PlaceholderCharsAnyLetter(seed, s) ==
    IF s = <<>> THEN <<>>
    ELSE Once(next_rand(seed), LAMBDA n :
           LET c == Head(s)
           IN  IF is_ascii_lowercase(c) \/ is_ascii_uppercase(c)
                    \/ is_ascii_digit(c)
                 THEN <<97 + U64Mod(n, 26)>>
                          \o PlaceholderCharsAnyLetter(n, Tail(s))
               ELSE <<c>> \o PlaceholderCharsAnyLetter(seed, Tail(s)))

create_placeholder_any_letter(id, original) ==
    PlaceholderCharsAnyLetter(HashOfId[id], original)

create_placeholder(id, original) == PlaceholderChars(HashOfId[id], original)

\* ------------------------------------------------------------------------
\* Regex and string primitives used by the DLP engine
\* A compiled regex is a sequence of character sets (one per position), the
\* fixed-length fragment of the regex crate that keyword patterns
\* ((?i) + escaped literal) and class patterns such as [a-z][0-9] compile to.
\* ------------------------------------------------------------------------
MatchAt(regex, text, i) ==
    /\ i + Len(regex) - 1 <= Len(text)
    /\ \A j \in 1..Len(regex) : text[i + j - 1] \in regex[j]

RECURSIVE find_from(_, _, _)
\* Regex::find_iter: leftmost, non-overlapping matches in scan order
find_from(regex, text, i) ==
    IF i + Len(regex) - 1 > Len(text) THEN <<>>
    ELSE IF MatchAt(regex, text, i)
      THEN <<SubSeq(text, i, i + Len(regex) - 1)>>
               \o find_from(regex, text, i + Len(regex))
      ELSE find_from(regex, text, i + 1)

find_iter(regex, text) == find_from(regex, text, 1)

\* Regex::is_match: unanchored search
is_match(regex, text) == \E i \in 1..Len(text) : MatchAt(regex, text, i)

IsAt(pat, text, i) ==
    /\ i + Len(pat) - 1 <= Len(text)
    /\ SubSeq(text, i, i + Len(pat) - 1) = pat

RECURSIVE replace_from(_, _, _, _)
\* str::replace: every non-overlapping occurrence, left to right
replace_from(text, from, to, i) ==
    IF i > Len(text) THEN <<>>
    ELSE IF IsAt(from, text, i)
      THEN to \o replace_from(text, from, to, i + Len(from))
      ELSE <<text[i]>> \o replace_from(text, from, to, i + 1)

replace(text, from, to) == replace_from(text, from, to, 1)

\* the case-insensitive character set of a keyword character
FoldCase(c) ==
    IF is_ascii_lowercase(c) THEN {c, c - 32}
    ELSE IF is_ascii_uppercase(c) THEN {c, c + 32}
    ELSE {c}

\* get_enabled_dlp_patterns: "(?i)" + regex::escape(keyword)
KeywordRegex(kw) == [i \in 1..Len(kw) |-> FoldCase(kw[i])]

count_unique_chars(s) == Cardinality({s[i] : i \in 1..Len(s)})

is_excluded_by_negative(matched, negative_regexes) ==
    \E k \in 1..Len(negative_regexes) : is_match(negative_regexes[k], matched)

\* ------------------------------------------------------------------------
\* redact_text                                          dlp.rs:332-428
\* The mutable arguments are threaded as one record
\*   st = [result, replacements, detections, counter]
\* replacements is the HashMap placeholder -> original (a function).
\* ------------------------------------------------------------------------
EmptyMap == <<>>

\* the lookup that never finds the value
HasOriginal_never(replacements, matched) == FALSE

HasOriginal(replacements, matched) ==
    \E k \in DOMAIN replacements : replacements[k] = matched

PlaceholderOf(replacements, matched) ==
    CHOOSE k \in DOMAIN replacements : replacements[k] = matched

RECURSIVE all_matches_from(_, _, _)
all_matches_from(regexes, text, k) ==
    IF k > Len(regexes) THEN <<>>
    ELSE find_iter(regexes[k], text) \o all_matches_from(regexes, text, k + 1)

\* body of `for matched in all_matches` (dlp.rs:375-424)
redact_match(st, pattern, matched, message_index) ==
    IF pattern.min_unique_chars > 0
         /\ count_unique_chars(matched) < pattern.min_unique_chars
      THEN st
    ELSE IF is_excluded_by_negative(matched, pattern.negative_regexes)
      THEN st
    ELSE IF HasOriginal(st.replacements, matched)
      THEN [st EXCEPT !.result =
                replace(st.result, matched, PlaceholderOf(st.replacements, matched))]
    ELSE Once(create_placeholder(st.counter, matched), LAMBDA p :
             [result |-> replace(st.result, matched, p),
              replacements |-> (p :> matched) @@ st.replacements,
              detections |-> Append(st.detections,
                  [pattern_name |-> pattern.name,
                   pattern_type |-> pattern.pattern_type,
                   original_value |-> matched,
                   placeholder |-> p,
                   message_index |-> message_index]),
              counter |-> st.counter + 1])

RECURSIVE redact_matches(_, _, _, _, _)
redact_matches(st, pattern, matches, k, message_index) ==
    IF k > Len(matches) THEN st
    ELSE Once(redact_match(st, pattern, matches[k], message_index),
              LAMBDA s2 : redact_matches(s2, pattern, matches, k + 1,
                                         message_index))

\* body of `for pattern in patterns` (dlp.rs:343-425)
redact_pattern(st, pattern, message_index) ==
    Once(all_matches_from(pattern.regexes, st.result, 1), LAMBDA all_matches :
        IF Len(all_matches) < pattern.min_occurrences THEN st
        ELSE redact_matches(st, pattern, all_matches, 1, message_index))

RECURSIVE redact_patterns(_, _, _, _)
redact_patterns(st, patterns, k, message_index) ==
    IF k > Len(patterns) THEN st
    ELSE Once(redact_pattern(st, patterns[k], message_index),
              LAMBDA s2 : redact_patterns(s2, patterns, k + 1, message_index))

\* returns the threaded record; .result is the redacted text
redact_text(text, patterns, st, message_index) ==
    Once([st EXCEPT !.result = text],
         LAMBDA s1 : redact_patterns(s1, patterns, 1, message_index))

\* ------------------------------------------------------------------------
\* apply_dlp_unredaction                                dlp.rs:431-444
\* `order` is the iteration order of the HashMap: a permutation of its keys.
\* ------------------------------------------------------------------------
RECURSIVE unredact_from(_, _, _, _)
unredact_from(text, replacements, order, k) ==
    IF k > Len(order) THEN text
    ELSE Once(replace(text, order[k], replacements[order[k]]),
              LAMBDA replaced : unredact_from(replaced, replacements, order,
                                              k + 1))

apply_dlp_unredaction(body, replacements, order) ==
    IF DOMAIN replacements = {} THEN body
    ELSE unredact_from(body, replacements, order, 1)

RECURSIVE OrdersOf(_)
OrdersOf(K) ==
    IF K = {} THEN {<<>>}
    ELSE UNION {{<<x>> \o p : p \in OrdersOf(K \ {x})} : x \in K}

\* the iteration orders a HashMap with these keys can have
IterationOrders(replacements) == OrdersOf(DOMAIN replacements)

\* ------------------------------------------------------------------------
\* JSON values (serde_json::Value).  Strings are code-point sequences,
\* objects are key/value pairs in the iteration order of serde_json::Map.
\* ------------------------------------------------------------------------
JStr(s) == [k |-> "str", s |-> s]
JArr(a) == [k |-> "arr", a |-> a]
JObj(o) == [k |-> "obj", o |-> o]
JNum == [k |-> "num"]
\* the body did not parse: serde_json::from_str returned Err
NotJson == [k |-> "invalid"]

HasKey(v, key) == v.k = "obj" /\ \E i \in 1..Len(v.o) : v.o[i][1] = key
\* Value::get(key); only used where HasKey holds
Get(v, key) == v.o[CHOOSE i \in 1..Len(v.o) : v.o[i][1] = key][2]
SetKey(v, key, nv) ==
    JObj([i \in 1..Len(v.o) |->
            IF v.o[i][1] = key THEN <<key, nv>> ELSE v.o[i]])

HasArray(v, key) == HasKey(v, key) /\ Get(v, key).k = "arr"
HasStr(v, key) == HasKey(v, key) /\ Get(v, key).k = "str"
\* .get(key).and_then(|r| r.as_str()).unwrap_or("")
StrOrEmpty(v, key) == IF HasStr(v, key) THEN Get(v, key).s ELSE <<>>

S_user == <<117, 115, 101, 114>>
S_assistant == <<97, 115, 115, 105, 115, 116, 97, 110, 116>>
S_message == <<109, 101, 115, 115, 97, 103, 101>>
S_function_call_output ==
    <<102, 117, 110, 99, 116, 105, 111, 110, 95, 99, 97, 108, 108, 95,
      111, 117, 116, 112, 117, 116>>
S_function_call ==
    <<102, 117, 110, 99, 116, 105, 111, 110, 95, 99, 97, 108, 108>>
S_reasoning == <<114, 101, 97, 115, 111, 110, 105, 110, 103>>

\* ------------------------------------------------------------------------
\* redact_value_recursive                               dlp.rs:256-288
\* returns [value, st]
\* ------------------------------------------------------------------------
RECURSIVE redact_value_recursive(_, _, _, _)
RECURSIVE redact_array_items(_, _, _, _, _)
RECURSIVE redact_object_entries(_, _, _, _, _)

redact_array_items(items, k, patterns, st, message_index) ==
    IF k > Len(items) THEN [value |-> items, st |-> st]
    ELSE Once(redact_value_recursive(items[k], patterns, st, message_index),
              LAMBDA r : redact_array_items([items EXCEPT ![k] = r.value],
                                            k + 1, patterns, r.st,
                                            message_index))

redact_object_entries(entries, k, patterns, st, message_index) ==
    IF k > Len(entries) THEN [value |-> entries, st |-> st]
    ELSE Once(redact_value_recursive(entries[k][2], patterns, st,
                                     message_index),
              LAMBDA r : redact_object_entries(
                  [entries EXCEPT ![k] = <<entries[k][1], r.value>>], k + 1,
                  patterns, r.st, message_index))

redact_value_recursive(value, patterns, st, message_index) ==
    IF value.k = "str"
      THEN Once(redact_text(value.s, patterns, st, message_index),
                LAMBDA r : [value |-> JStr(r.result), st |-> r])
    ELSE IF value.k = "arr"
      THEN Once(redact_array_items(value.a, 1, patterns, st, message_index),
                LAMBDA r : [value |-> JArr(r.value), st |-> r.st])
    ELSE IF value.k = "obj"
      THEN Once(redact_object_entries(value.o, 1, patterns, st,
                                      message_index),
                LAMBDA r : [value |-> JObj(r.value), st |-> r.st])
    ELSE [value |-> value, st |-> st]

\* ------------------------------------------------------------------------
\* apply_dlp_redaction                                  dlp.rs:137-253
\* A request body is [json, fmt]: json is the parsed value (or NotJson),
\* fmt tells whether the raw bytes are serde_json's own compact
\* serialisation ("compact") or any other spelling of the same value.
\* ------------------------------------------------------------------------
\* redact_message without the role test
redact_message_any_role(message, patterns, st, msg_idx) ==
    IF HasKey(message, "content")
      THEN Once(redact_value_recursive(Get(message, "content"), patterns,
                                       st, msg_idx),
                LAMBDA r : [value |-> SetKey(message, "content", r.value),
                            st |-> r.st])
    ELSE [value |-> message, st |-> st]

\* one Claude message (dlp.rs:169-190): returns [value, st]
redact_message(message, patterns, st, msg_idx) ==
    IF StrOrEmpty(message, "role") # S_user
      THEN [value |-> message, st |-> st]
    ELSE IF HasKey(message, "content")
      THEN Once(redact_value_recursive(Get(message, "content"), patterns,
                                       st, msg_idx),
                LAMBDA r : [value |-> SetKey(message, "content", r.value),
                            st |-> r.st])
    ELSE [value |-> message, st |-> st]

\* one Codex input item (dlp.rs:196-240): returns [value, st]
redact_input_item(item, patterns, st, item_idx) ==
    LET item_type == StrOrEmpty(item, "type")
    IN  IF item_type = S_message
          THEN IF StrOrEmpty(item, "role") # S_user
                 THEN [value |-> item, st |-> st]
               ELSE IF HasKey(item, "content")
                 THEN Once(redact_value_recursive(Get(item, "content"),
                                                  patterns, st, item_idx),
                           LAMBDA r :
                               [value |-> SetKey(item, "content", r.value),
                                st |-> r.st])
               ELSE [value |-> item, st |-> st]
        ELSE IF item_type = S_function_call_output
          THEN IF HasKey(item, "output")
                 THEN Once(redact_value_recursive(Get(item, "output"),
                                                  patterns, st, item_idx),
                           LAMBDA r :
                               [value |-> SetKey(item, "output", r.value),
                                st |-> r.st])
               ELSE [value |-> item, st |-> st]
        ELSE [value |-> item, st |-> st]

RECURSIVE redact_messages(_, _, _, _)
redact_messages(messages, k, patterns, st) ==
    IF k > Len(messages) THEN [value |-> messages, st |-> st]
    ELSE Once(redact_message(messages[k], patterns, st, k - 1),
              LAMBDA r : redact_messages([messages EXCEPT ![k] = r.value],
                                         k + 1, patterns, r.st))

RECURSIVE redact_input(_, _, _, _)
redact_input(input, k, patterns, st) ==
    IF k > Len(input) THEN [value |-> input, st |-> st]
    ELSE Once(redact_input_item(input[k], patterns, st, k - 1),
              LAMBDA r : redact_input([input EXCEPT ![k] = r.value], k + 1,
                                      patterns, r.st))

InitialRedactState ==
    [result |-> <<>>, replacements |-> EmptyMap, detections |-> <<>>,
     counter |-> 1]

apply_dlp_redaction(body, patterns) ==
    IF patterns = <<>> \/ body.json = NotJson
      THEN [redacted_body |-> body, replacements |-> EmptyMap,
            detections |-> <<>>]
    ELSE
      Once(IF HasArray(body.json, "messages")
             THEN Once(redact_messages(Get(body.json, "messages").a, 1,
                                       patterns, InitialRedactState),
                       LAMBDA r : [value |-> SetKey(body.json, "messages",
                                                    JArr(r.value)),
                                   st |-> r.st])
             ELSE [value |-> body.json, st |-> InitialRedactState],
        LAMBDA r1 :
      Once(IF HasArray(r1.value, "input")
             THEN Once(redact_input(Get(r1.value, "input").a, 1, patterns,
                                    r1.st),
                       LAMBDA r : [value |-> SetKey(r1.value, "input",
                                                    JArr(r.value)),
                                   st |-> r.st])
             ELSE r1,
        LAMBDA r2 :
          \* serde_json::to_string(&json): always the compact spelling
          [redacted_body |-> [json |-> r2.value, fmt |-> "compact"],
           replacements |-> r2.st.replacements,
           detections |-> r2.st.detections]))

\* ------------------------------------------------------------------------
\* Inputs of the DLP checks
\* ------------------------------------------------------------------------
Lower == 97..122
Digit == 48..57

\* regex [a-z][0-9]
PatKey ==
    [name |-> "key", pattern_type |-> "regex",
     regexes |-> << <<Lower, Digit>> >>, negative_regexes |-> <<>>,
     min_occurrences |-> 1, min_unique_chars |-> 0]
\* regex [a-z0-9]{2}
PatAlnum ==
    [name |-> "alnum", pattern_type |-> "regex",
     regexes |-> << <<Lower \cup Digit, Lower \cup Digit>> >>,
     negative_regexes |-> <<>>,
     min_occurrences |-> 1, min_unique_chars |-> 0]
\* keyword "-"
PatDash ==
    [name |-> "dash", pattern_type |-> "keyword",
     regexes |-> <<KeywordRegex(<<45>>)>>, negative_regexes |-> <<>>,
     min_occurrences |-> 1, min_unique_chars |-> 0]
\* regexes [0-9][0-9] and [a-z][a-z], at least two matches, two distinct
\* characters per match, negative regex 6
PatStrict ==
    [name |-> "strict", pattern_type |-> "regex",
     regexes |-> << <<Digit, Digit>>, <<Lower, Lower>> >>,
     negative_regexes |-> << <<{54}>> >>,
     min_occurrences |-> 2, min_unique_chars |-> 2]

\* regex [0-9]
PatDigit ==
    [name |-> "digit", pattern_type |-> "regex",
     regexes |-> << <<Digit>> >>, negative_regexes |-> <<>>,
     min_occurrences |-> 1, min_unique_chars |-> 0]

PatternStores ==
    { <<>>, <<PatKey>>, <<PatKey, PatAlnum>>, <<PatDash, PatStrict>>,
      <<PatDigit>> }

\* "a7", "a7-a7", "77at76", "x"
Texts ==
    { <<97, 55>>, <<97, 55, 45, 97, 55>>, <<55, 55, 97, 116, 55, 54>>,
      <<120>> }

Contents ==
    {JStr(t) : t \in Texts}
      \cup {JArr(<<JObj(<< <<"text", JStr(<<97, 55>>)>>, <<"n", JNum>> >>)>>)}

ClaudeMessages ==
    {JObj(<< <<"role", JStr(r)>>, <<"content", c>> >>) :
        r \in {S_user, S_assistant}, c \in Contents}
      \cup {JObj(<< <<"content", JStr(<<97, 55>>)>> >>), JStr(<<97, 55>>)}

CodexItems ==
    {JObj(<< <<"type", JStr(S_message)>>, <<"role", JStr(r)>>,
             <<"content", JArr(<<JObj(<< <<"text", JStr(t)>> >>)>>)>> >>) :
        r \in {S_user, S_assistant}, t \in {<<97, 55>>, <<97, 55, 45, 97, 55>>}}
      \cup {JObj(<< <<"type", JStr(ty)>>, <<"output", JStr(<<97, 55>>)>>,
                    <<"arguments", JStr(<<97, 55>>)>> >>) :
              ty \in {S_function_call_output, S_function_call, S_reasoning}}

SeqsUpTo(S, n) == UNION {[1..m -> S] : m \in 1..n}

MaxMessages == 2

DlpBodies ==
    {[json |-> JObj(<< <<"model", JStr(<<120>>)>>,
                       <<"system", JStr(<<97, 55>>)>>,
                       <<"messages", JArr(ms)>> >>), fmt |-> f] :
        ms \in SeqsUpTo(ClaudeMessages, MaxMessages), f \in {"compact"}}
      \cup
    {[json |-> JObj(<< <<"model", JStr(<<120>>)>>,
                       <<"instructions", JStr(<<97, 55>>)>>,
                       <<"input", JArr(is)>> >>), fmt |-> f] :
        is \in SeqsUpTo(CodexItems, MaxMessages), f \in {"spaced"}}
      \cup
    {[json |-> NotJson, fmt |-> "spaced"],
     [json |-> JObj(<< <<"prompt", JStr(<<97, 55>>)>> >>), fmt |-> "spaced"],
     [json |-> JObj(<< <<"messages", JStr(<<97, 55>>)>>,
                       <<"input", JArr(<<JStr(<<97, 55>>)>>)>> >>),
      fmt |-> "compact"],
     \* a user message "7612"
     [json |-> JObj(<< <<"messages",
                         JArr(<<JObj(<< <<"role", JStr(S_user)>>,
                                        <<"content",
                                          JStr(<<55, 54, 49, 50>>)>> >>)>>)>> >>),
      fmt |-> "compact"]}

\* string leaves of a value in traversal order
RECURSIVE Leaves(_)
RECURSIVE LeavesOfSeq(_, _)
LeavesOfSeq(vs, k) ==
    IF k > Len(vs) THEN <<>> ELSE Leaves(vs[k]) \o LeavesOfSeq(vs, k + 1)
Leaves(v) ==
    IF v.k = "str" THEN <<v.s>>
    ELSE IF v.k = "arr" THEN LeavesOfSeq(v.a, 1)
    ELSE IF v.k = "obj" THEN LeavesOfSeq([i \in 1..Len(v.o) |-> v.o[i][2]], 1)
    ELSE <<>>

\* is this element of messages[] user-authored ?
IsUserMessage(m) == StrOrEmpty(m, "role") = S_user /\ HasKey(m, "content")
\* which key of this element of input[] holds user-authored data ("" = none)
UserKeyOfItem(it) ==
    IF StrOrEmpty(it, "type") = S_message /\ StrOrEmpty(it, "role") = S_user
         /\ HasKey(it, "content") THEN "content"
    ELSE IF StrOrEmpty(it, "type") = S_function_call_output
         /\ HasKey(it, "output") THEN "output"
    ELSE ""

RECURSIVE UserLeavesOfMessages(_, _)
UserLeavesOfMessages(ms, k) ==
    IF k > Len(ms) THEN <<>>
    ELSE (IF IsUserMessage(ms[k]) THEN Leaves(Get(ms[k], "content")) ELSE <<>>)
            \o UserLeavesOfMessages(ms, k + 1)

RECURSIVE UserLeavesOfInput(_, _)
UserLeavesOfInput(is, k) ==
    IF k > Len(is) THEN <<>>
    ELSE (IF UserKeyOfItem(is[k]) # "" THEN Leaves(Get(is[k], UserKeyOfItem(is[k])))
          ELSE <<>>)
            \o UserLeavesOfInput(is, k + 1)

\* the user-authored strings of a request body, in traversal order
UserLeaves(json) ==
    (IF HasArray(json, "messages")
       THEN UserLeavesOfMessages(Get(json, "messages").a, 1) ELSE <<>>)
    \o (IF HasArray(json, "input")
          THEN UserLeavesOfInput(Get(json, "input").a, 1) ELSE <<>>)

\* ========================================================================
\* State
\* ========================================================================
VARIABLES
    clock,          \* SystemTime::now() in epoch seconds
    requests,       \* RateLimiter.requests: backend name -> Vec of timestamps
    settings,       \* backend name -> CustomBackendSettings
    dlp_setting,    \* settings table row 'dlp_action': "block", "redact", "absent"
    store,          \* the enabled rows of dlp_patterns, compiled
    task,           \* handler task -> state of the proxy_handler call it runs
    rows,           \* the requests table: rows written by log_request
    upstream_calls, \* requests sent upstream by reqwest_req.send()
    admitted,       \* history: <<backend, timestamp>> pushed by check_and_record
    served,         \* number of requests received so far
    ticks,          \* number of clock advances so far
    d_pc, d_body, d_patterns, d_res, d_out,   \* DLP engine run on one body
    ph,             \* one create_placeholder call
    hook,           \* the last cursor-hooks call on the database and its result
    custom_backends, \* the custom_backends table
    command,        \* command slot -> state of the backend command it runs
    dlp_detections, \* the dlp_detections table
    retention,      \* sqlite_sequence of requests, the id a handler holds
                    \* and the last cleanup_old_data call
    lifecycle       \* PROXY_PORT, PROXY_STATUS, RESTART_SENDER and the
                    \* position of start_proxy_server

adminVars == <<custom_backends, command, dlp_detections, retention, lifecycle>>
proxyVars == <<clock, requests, settings, dlp_setting, store, task, rows,
               upstream_calls, admitted, served, ticks, hook, adminVars>>
dlpVars == <<d_pc, d_body, d_patterns, d_res, d_out>>
checkVars == <<d_pc, d_body, d_patterns, d_res, d_out, ph, hook, adminVars>>
baseVars == <<clock, requests, settings, dlp_setting, store, task, rows,
              upstream_calls, admitted, ticks,
              d_pc, d_body, d_patterns, d_res, d_out, ph, hook,
              dlp_detections, retention, lifecycle>>
retentionRest == <<clock, requests, settings, dlp_setting, store, task,
                   upstream_calls, admitted, ticks,
                   d_pc, d_body, d_patterns, d_res, d_out, ph, hook,
                   custom_backends, command, lifecycle>>
vars == <<clock, requests, settings, dlp_setting, store, task, rows,
          upstream_calls, admitted, served, ticks,
          d_pc, d_body, d_patterns, d_res, d_out, ph, hook, adminVars>>

\* ------------------------------------------------------------------------
\* Bounds and inputs of the proxy model
\* ------------------------------------------------------------------------
NumCallers == 4
MaxRequests == 2
StartClock == 100
MaxTicks == 2
TickSteps == {1, 59}

Backends == {"claude", "codex", "custom"}

\* database.rs:15-27
DLP_ACTION_PASSED == 0
DLP_ACTION_REDACTED == 1
DLP_ACTION_BLOCKED == 2
DLP_ACTION_RATELIMITED == 3
DLP_ACTION_NOTIFY_RATELIMIT == 4

\* the action is read only behind max_tokens > 0 (proxy.rs:246-255): with
\* no budget one value of it stands for both
SettingsSpace ==
    {st \in [dlp_enabled : BOOLEAN,
             rate_limit_requests : {0, 1},
             rate_limit_minutes : {1},
             max_tokens_in_a_request : {0, 10},
             action_for_max_tokens_in_a_request : {"block", "notify"}] :
        st.max_tokens_in_a_request = 0 =>
            st.action_for_max_tokens_in_a_request = "block"}

\* Backend::get_rate_limit (claude.rs:224-226, codex.rs:241-243,
\* custom.rs:216-218)
get_rate_limit(b) ==
    <<settings[b].rate_limit_requests,
      IF settings[b].rate_limit_minutes < 1 THEN 1
      ELSE settings[b].rate_limit_minutes>>
get_max_tokens_limit(b) ==
    <<settings[b].max_tokens_in_a_request,
      settings[b].action_for_max_tokens_in_a_request>>
is_dlp_enabled(b) == settings[b].dlp_enabled

\* Backend::should_log
should_log(b, body) ==
    /\ body.json # NotJson
    /\ HasStr(body.json, "model")
    /\ IF b = "claude" THEN HasArray(body.json, "messages")
       ELSE IF b = "codex" THEN HasKey(body.json, "input")
       ELSE HasKey(body.json, "messages")

\* estimate_tokens on a text of `words` whitespace-separated words:
\* (word_count as f64 * 1.5).ceil()
\* the estimate rounded down instead of up
estimate_tokens_floor(words) == (3 * words) \div 2
estimate_tokens(words) == (3 * words + 1) \div 2

\* the setting read with "redact" as the value of a failed read
get_dlp_action_from_db_or_redact ==
    IF dlp_setting = "absent" THEN "redact" ELSE dlp_setting

\* get_dlp_action_from_db (database.rs:765-783): "absent" stands for every
\* read that fails, the store that cannot be opened (766-769) and the
\* missing row or failed query (776-782): each returns "block"
get_dlp_action_from_db == IF dlp_setting = "absent" THEN "block" ELSE dlp_setting

UserBody(text) ==
    [json |-> JObj(<< <<"model", JStr(<<120>>)>>,
                      <<"messages", JArr(<<
                          JObj(<< <<"role", JStr(S_user)>>,
                                  <<"content", JStr(text)>> >>) >>)>> >>),
     fmt |-> "compact"]
CodexBody(text) ==
    [json |-> JObj(<< <<"model", JStr(<<120>>)>>,
                      <<"input", JArr(<<
                          JObj(<< <<"type", JStr(S_message)>>,
                                  <<"role", JStr(S_user)>>,
                                  <<"content", JStr(text)>> >>) >>)>> >>),
     fmt |-> "compact"]
\* a body that no backend logs (no model) but that carries user content
UnloggedBody(text) ==
    [json |-> JObj(<< <<"messages", JArr(<<
                          JObj(<< <<"role", JStr(S_user)>>,
                                  <<"content", JStr(text)>> >>) >>)>>,
                      <<"input", JArr(<<>>)>> >>),
     fmt |-> "compact"]

\* what a client sends: the body, the number of whitespace-separated words
\* of its raw text and the spelling of its stream flag in the raw bytes
\* ("none": no stream member, "compact": "stream":true, "spaced":
\* "stream": true, "off": "stream":false)
ProxyRequests ==
    { [body |-> UserBody(<<97, 55>>), words |-> 6, stream |-> "none"],
      [body |-> UserBody(<<97, 55>>), words |-> 7, stream |-> "compact"],
      [body |-> UserBody(<<120>>), words |-> 7, stream |-> "compact"],
      [body |-> UserBody(<<120>>), words |-> 6, stream |-> "spaced"],
      [body |-> CodexBody(<<97, 55>>), words |-> 7, stream |-> "off"],
      [body |-> UnloggedBody(<<97, 55>>), words |-> 7, stream |-> "none"],
      [body |-> [json |-> NotJson, fmt |-> "raw"], words |-> 7,
       stream |-> "none"] }

NoDlp == [redacted_body |-> [json |-> NotJson, fmt |-> "raw"],
          replacements |-> EmptyMap, detections |-> <<>>]
NoResp == [status |-> 0]

IdleTask ==
    [pc |-> "idle", id |-> 0, backend |-> "claude",
     body |-> [json |-> NotJson, fmt |-> "raw"], words |-> 0,
     stream |-> "none", should_log |-> FALSE, notify_ratelimit |-> FALSE,
     now |-> 0, dlp |-> NoDlp, stages |-> <<>>, resp |-> NoResp,
     status |-> 0, pending |-> <<>>, collected |-> <<>>, emitted |-> <<>>,
     log_failed |-> FALSE]

Tasks == DOMAIN task

\* ------------------------------------------------------------------------
\* RateLimiter::check_and_record                        proxy.rs:48-74
\* ------------------------------------------------------------------------
saturating_sub(a, b) == IF a < b THEN 0 ELSE a - b

\* timestamps.retain(|&ts| ts > cutoff)
retain(timestamps, cutoff) == SelectSeq(timestamps, LAMBDA ts : ts > cutoff)

\* the limiter pushing the timestamp of a call it denies as well
check_and_record_recording_denied(timestamps, now, max_requests, window_minutes) ==
    LET cutoff == saturating_sub(now, window_minutes * 60)
        kept == retain(timestamps, cutoff)
    IN  IF max_requests = 0
          THEN [timestamps |-> timestamps, allowed |-> TRUE]
          ELSE [timestamps |-> Append(kept, now),
                allowed |-> Len(kept) < max_requests]

\* check_and_record on the backend's Vec, with the clock value it read at
\* proxy.rs:53-56: the early return of proxy.rs:49-51, then the part that
\* runs under the mutex (proxy.rs:60-73). Returns the new Vec and the verdict
check_and_record(timestamps, now, max_requests, window_minutes) ==
    LET cutoff == saturating_sub(now, window_minutes * 60)
        kept == retain(timestamps, cutoff)
    IN  IF max_requests = 0
          THEN [timestamps |-> timestamps, allowed |-> TRUE]
          ELSE IF Len(kept) >= max_requests
                 THEN [timestamps |-> kept, allowed |-> FALSE]
                 ELSE [timestamps |-> Append(kept, now), allowed |-> TRUE]

\* ------------------------------------------------------------------------
\* proxy_handler                                        proxy.rs:161-622
\* ------------------------------------------------------------------------
Resp(status, content_type, retry_after, body) ==
    [status |-> status, content_type |-> content_type,
     retry_after |-> retry_after, body |-> body]
\* header not set
NoHeader == -1

ErrorBody(shape, type, code, names) ==
    [k |-> "error", shape |-> shape, type |-> type, code |-> code,
     names |-> names]
TextBody(s) == [k |-> "text", s |-> s]

\* a `return Response...` of proxy_handler: the call ends with this response
Return(tk, resp) == [tk EXCEPT !.pc = "done", !.resp = resp]

\* a denial that answers but goes on to the upstream call
Deny_without_return(tk, resp) == [tk EXCEPT !.pc = "dispatch", !.resp = resp]

\* the `return` that ends a policy denial (proxy.rs:237-242, 284-288, 354-358)
Deny(tk, resp) == [tk EXCEPT !.pc = "done", !.resp = resp]

\* log_request was called for the task's request and returned `ok`
Attempt(tk, ok) == [tk EXCEPT !.log_failed = ~ok]

\* Database::log_request (database.rs:276-336): the row it inserts
Row(tk, response_body, response_status, is_streaming, dlp_action, detections) ==
    [id |-> tk.id, backend |-> tk.backend,
     response_body |-> response_body, response_status |-> response_status,
     is_streaming |-> is_streaming, dlp_action |-> dlp_action,
     detections |-> detections]

\* the write is best effort: `ok` is the Result of the INSERT
Logged(row, ok) == IF ok THEN Append(rows, row) ELSE rows

Set(t, tk) == task' = [task EXCEPT ![t] = tk]

\* the runtime hands a new connection to a free task (the first one: tasks
\* are interchangeable)
FirstIdle(t) ==
    /\ task[t].pc = "idle"
    /\ \A u \in Tasks : u < t => task[u].pc # "idle"

\* proxy.rs:161-198: the request arrives, its body is read to the end
Receive(t, b, rq) ==
    /\ FirstIdle(t)
    /\ served' = served + 1
    /\ Set(t, [IdleTask EXCEPT !.pc = "rate", !.id = served + 1,
                               !.backend = b, !.body = rq.body,
                               !.words = rq.words, !.stream = rq.stream,
                               !.should_log = should_log(b, rq.body)])
    /\ UNCHANGED <<checkVars, clock, requests, settings, dlp_setting, store, rows,
                   upstream_calls, admitted, ticks>>

\* proxy.rs:182-190: axum::body::to_bytes fails
ReceiveFails(t, b) ==
    /\ FirstIdle(t)
    /\ served' = served + 1
    /\ Set(t, Return([IdleTask EXCEPT !.id = served + 1, !.backend = b],
                     Resp(400, "", NoHeader, [k |-> "bad_request"])))
    /\ UNCHANGED <<checkVars, clock, requests, settings, dlp_setting, store, rows,
                   upstream_calls, admitted, ticks>>

\* proxy.rs:201-202: rate_requests = 0, check_and_record is not called
RateUnlimited(t) ==
    /\ task[t].pc = "rate"
    /\ get_rate_limit(task[t].backend)[1] = 0
    /\ Set(t, [task[t] EXCEPT !.pc = "token",
                              !.stages = Append(@, "rate")])
    /\ UNCHANGED <<checkVars, clock, requests, settings, dlp_setting, store, rows,
                   upstream_calls, admitted, served, ticks>>

\* proxy.rs:53-58: check_and_record reads the clock, before taking the lock
RateReadClock(t) ==
    /\ task[t].pc = "rate"
    /\ get_rate_limit(task[t].backend)[1] > 0
    /\ Set(t, [task[t] EXCEPT !.pc = "rate_lock", !.now = clock])
    /\ UNCHANGED <<checkVars, clock, requests, settings, dlp_setting, store, rows,
                   upstream_calls, admitted, served, ticks>>

RateLimitError == ErrorBody("openai", "rate_limit_error", "rate_limit_exceeded", {})

\* the rate-limit row stamped with the action of a DLP block
rate_limited_row_blocked(tk) ==
    Row(tk, RateLimitError, 429, FALSE, DLP_ACTION_BLOCKED, <<>>)

\* the row of proxy.rs:216-235
rate_limited_row(tk) ==
    Row(tk, RateLimitError, 429, FALSE, DLP_ACTION_RATELIMITED, <<>>)

\* proxy.rs:60-73 and 202: the locked part of check_and_record admits
RateAdmit(t) ==
    LET tk == task[t]
        lim == get_rate_limit(tk.backend)
        r == check_and_record(requests[tk.backend], tk.now, lim[1], lim[2])
    IN  /\ tk.pc = "rate_lock"
        /\ r.allowed
        /\ requests' = [requests EXCEPT ![tk.backend] = r.timestamps]
        /\ admitted' = Append(admitted, <<tk.backend, tk.now>>)
        /\ Set(t, [tk EXCEPT !.pc = "token", !.stages = Append(@, "rate")])
        /\ UNCHANGED <<checkVars, clock, settings, dlp_setting, store, rows,
                       upstream_calls, served, ticks>>

\* proxy.rs:60-69 and 202-243: the locked part denies, the handler logs the
\* denial and answers 429
RateDeny(t, ok) ==
    LET tk == task[t]
        lim == get_rate_limit(tk.backend)
        r == check_and_record(requests[tk.backend], tk.now, lim[1], lim[2])
    IN  /\ tk.pc = "rate_lock"
        /\ ~r.allowed
        /\ requests' = [requests EXCEPT ![tk.backend] = r.timestamps]
        /\ rows' = IF tk.should_log THEN Logged(rate_limited_row(tk), ok)
                   ELSE rows
        /\ Set(t, Deny([(IF tk.should_log THEN Attempt(tk, ok) ELSE tk)
                            EXCEPT !.stages = Append(@, "rate")],
                       Resp(429, "application/json", lim[2] * 60,
                            RateLimitError)))
        /\ UNCHANGED <<checkVars, clock, settings, dlp_setting, store, upstream_calls,
                       admitted, served, ticks>>

\* time passes
Tick(d) ==
    /\ ticks < MaxTicks
    /\ ticks' = ticks + 1
    /\ clock' = clock + d
    /\ UNCHANGED <<checkVars, requests, settings, dlp_setting, store, task, rows,
                   upstream_calls, admitted, served>>

TokenLimitError ==
    ErrorBody("openai", "rate_limit_error", "token_limit_exceeded", {})

\* proxy.rs:246-249: does the token stage find the budget exceeded ?
token_limit_exceeded(tk) ==
    LET lim == get_max_tokens_limit(tk.backend)
    IN  /\ lim[1] > 0
        /\ tk.should_log
        /\ estimate_tokens(tk.words) > lim[1]

\* the row of proxy.rs:265-282
token_limited_row(tk) ==
    Row(tk, TokenLimitError, 429, FALSE, DLP_ACTION_RATELIMITED, <<>>)

\* the response of proxy.rs:284-288
token_limited_response ==
    Resp(429, "application/json", NoHeader, TokenLimitError)

\* proxy.rs:246-294, the token budget is not exceeded or the action is notify
TokenPass(t) ==
    LET tk == task[t]
    IN  /\ tk.pc = "token"
        /\ ~(token_limit_exceeded(tk)
               /\ get_max_tokens_limit(tk.backend)[2] = "block")
        /\ Set(t, [tk EXCEPT !.pc = "dlp",
                             !.notify_ratelimit = token_limit_exceeded(tk),
                             !.stages = Append(@, "token")])
        /\ UNCHANGED <<checkVars, clock, requests, settings, dlp_setting, store, rows,
                       upstream_calls, admitted, served, ticks>>

\* proxy.rs:255-288, the token budget is exceeded and the action is block
TokenBlock(t, ok) ==
    LET tk == task[t]
    IN  /\ tk.pc = "token"
        /\ token_limit_exceeded(tk)
        /\ get_max_tokens_limit(tk.backend)[2] = "block"
        /\ rows' = Logged(token_limited_row(tk), ok)
        /\ Set(t, Deny([Attempt(tk, ok) EXCEPT !.stages = Append(@, "token")],
                       token_limited_response))
        /\ UNCHANGED <<checkVars, clock, requests, settings, dlp_setting, store,
                       upstream_calls, admitted, served, ticks>>

\* proxy.rs:297-311
dlp_result_of(tk) ==
    IF is_dlp_enabled(tk.backend) THEN apply_dlp_redaction(tk.body, store)
    ELSE [redacted_body |-> tk.body, replacements |-> EmptyMap,
          detections |-> <<>>]

\* format_detection_patterns: the sorted, deduplicated names, i.e. their set
format_detection_patterns(detections) ==
    {detections[i].pattern_name : i \in 1..Len(detections)}

\* proxy.rs:322-326
dlp_block_error(tk, detections) ==
    IF tk.backend = "codex"
      THEN ErrorBody("openai", "invalid_request_error",
                     "content_policy_violation",
                     format_detection_patterns(detections))
      ELSE ErrorBody("claude", "invalid_request_error", "",
                     format_detection_patterns(detections))

\* proxy.rs:314-315
dlp_blocks(tk, detections) ==
    /\ is_dlp_enabled(tk.backend)
    /\ get_dlp_action_from_db = "block"
    /\ detections # <<>>

\* the row of proxy.rs:333-351
dlp_blocked_row(tk, detections) ==
    Row(tk, dlp_block_error(tk, detections), 400, FALSE, DLP_ACTION_BLOCKED,
        detections)

\* proxy.rs:297-315, the DLP gate lets the request through
DlpPass(t) ==
    LET tk == task[t]
        res == dlp_result_of(tk)
    IN  /\ tk.pc = "dlp"
        /\ ~dlp_blocks(tk, res.detections)
        /\ Set(t, [tk EXCEPT !.pc = "dispatch", !.dlp = res,
                             !.stages = Append(@, "dlp")])
        /\ UNCHANGED <<checkVars, clock, requests, settings, dlp_setting, store, rows,
                       upstream_calls, admitted, served, ticks>>

\* proxy.rs:297-359, the DLP gate blocks
DlpBlock(t, ok) ==
    LET tk == task[t]
        res == dlp_result_of(tk)
    IN  /\ tk.pc = "dlp"
        /\ dlp_blocks(tk, res.detections)
        /\ rows' = IF should_log(tk.backend, tk.body)
                     THEN Logged(dlp_blocked_row(tk, res.detections), ok)
                     ELSE rows
        /\ Set(t, Deny([(IF should_log(tk.backend, tk.body)
                               THEN Attempt(tk, ok) ELSE tk)
                            EXCEPT !.dlp = res, !.stages = Append(@, "dlp")],
                       Resp(400, "application/json", NoHeader,
                            dlp_block_error(tk, res.detections))))
        /\ UNCHANGED <<checkVars, clock, requests, settings, dlp_setting, store,
                       upstream_calls, admitted, served, ticks>>

\* proxy.rs:389-391
\* the bytes "stream":true (13 bytes) and "stream": true (14 bytes)
B_stream_true ==
    <<34, 115, 116, 114, 101, 97, 109, 34, 58, 116, 114, 117, 101>>
B_stream_space_true ==
    <<34, 115, 116, 114, 101, 97, 109, 34, 58, 32, 116, 114, 117, 101>>
B_stream_false ==
    <<34, 115, 116, 114, 101, 97, 109, 34, 58, 102, 97, 108, 115, 101>>

\* the raw bytes of the request body around its stream member:
\* {"stream":true} and so on
body_bytes(tk) ==
    <<123>> \o (IF tk.stream = "compact" THEN B_stream_true
                ELSE IF tk.stream = "spaced" THEN B_stream_space_true
                ELSE IF tk.stream = "off" THEN B_stream_false
                ELSE <<>>) \o <<125>>

\* slice::windows(n): every run of n consecutive bytes
windows(bytes, n) ==
    {SubSeq(bytes, i, i + n - 1) : i \in 1..(Len(bytes) - n + 1)}

is_streaming(tk) ==
    \E w \in windows(body_bytes(tk), 13) :
        w = B_stream_true \/ w = B_stream_space_true

\* proxy.rs:361-394: the request, with the redacted body, is sent upstream
Dispatch(t) ==
    LET tk == task[t]
    IN  /\ tk.pc = "dispatch"
        /\ upstream_calls' = Append(upstream_calls,
               [id |-> tk.id, backend |-> tk.backend])
        /\ Set(t, [tk EXCEPT !.pc = "sent",
                             !.stages = Append(@, "upstream")])
        /\ UNCHANGED <<checkVars, clock, requests, settings, dlp_setting, store, rows,
                       admitted, served, ticks>>

\* proxy.rs:399-405: reqwest_req.send() returns Err
UpstreamFails(t) ==
    LET tk == task[t]
    IN  /\ tk.pc = "sent"
        /\ Set(t, Return(tk, Resp(502, "", NoHeader, [k |-> "proxy_error"])))
        /\ UNCHANGED <<checkVars, clock, requests, settings, dlp_setting, store, rows,
                       upstream_calls, admitted, served, ticks>>

RECURSIVE Join(_)
Join(ss) == IF ss = <<>> THEN <<>> ELSE Head(ss) \o Join(Tail(ss))

\* what the upstream answers: it echoes the user strings it was sent
UpstreamText(tk) ==
    IF tk.dlp.redacted_body.json = NotJson THEN <<120>>
    ELSE Join(UserLeaves(tk.dlp.redacted_body.json)) \o <<120>>

\* the ways a text arrives as a stream of chunks
ChunkingsOf(text) ==
    {<<text>>} \cup
    {<<SubSeq(text, 1, c), SubSeq(text, c + 1, Len(text))>> :
         c \in 1..(Len(text) - 1)}

\* proxy.rs:394-426: the upstream answers with a status and headers
UpstreamResponds(t, status, chunks) ==
    LET tk == task[t]
    IN  /\ tk.pc = "sent"
        /\ Set(t, [tk EXCEPT !.pc = IF is_streaming(tk) THEN "stream"
                                    ELSE "buffer",
                             !.status = status, !.pending = chunks])
        /\ UNCHANGED <<checkVars, clock, requests, settings, dlp_setting, store, rows,
                       upstream_calls, admitted, served, ticks>>

\* proxy.rs:579-585
classify_buffered(notify_ratelimit, detections) ==
    IF notify_ratelimit /\ detections = <<>> THEN DLP_ACTION_NOTIFY_RATELIMIT
    ELSE IF detections = <<>> THEN DLP_ACTION_PASSED
    ELSE DLP_ACTION_REDACTED

\* the streaming classification testing the notify flag alone
classify_streamed_notify_first(notify_ratelimit, detections) ==
    IF notify_ratelimit THEN DLP_ACTION_NOTIFY_RATELIMIT
    ELSE IF detections = <<>> THEN DLP_ACTION_PASSED
    ELSE DLP_ACTION_REDACTED

\* proxy.rs:495-501
classify_streamed(notify_ratelimit, detections) ==
    IF notify_ratelimit /\ detections = <<>> THEN DLP_ACTION_NOTIFY_RATELIMIT
    ELSE IF detections = <<>> THEN DLP_ACTION_PASSED
    ELSE DLP_ACTION_REDACTED

\* proxy.rs:540-548: reading the buffered response body fails
BufferedReadFails(t) ==
    LET tk == task[t]
    IN  /\ tk.pc = "buffer"
        /\ Set(t, Return(tk, Resp(502, "", NoHeader, [k |-> "read_error"])))
        /\ UNCHANGED <<checkVars, clock, requests, settings, dlp_setting, store, rows,
                       upstream_calls, admitted, served, ticks>>

\* proxy.rs:532-621: the buffered response is un-redacted, logged, returned
BufferedResponse(t, order, ok) ==
    LET tk == task[t]
        unredacted == apply_dlp_unredaction(Join(tk.pending),
                                            tk.dlp.replacements, order)
    IN  /\ tk.pc = "buffer"
        /\ order \in IterationOrders(tk.dlp.replacements)
        /\ rows' = IF should_log(tk.backend, tk.body)
                     THEN Logged(Row(tk, TextBody(unredacted), tk.status,
                                     FALSE,
                                     classify_buffered(tk.notify_ratelimit,
                                                       tk.dlp.detections),
                                     tk.dlp.detections), ok)
                     ELSE rows
        /\ Set(t, Return([(IF should_log(tk.backend, tk.body)
                                 THEN Attempt(tk, ok) ELSE tk)
                              EXCEPT !.pending = <<>>,
                                     !.emitted = <<unredacted>>],
                         Resp(tk.status, "upstream", NoHeader,
                              TextBody(unredacted))))
        /\ UNCHANGED <<checkVars, clock, requests, settings, dlp_setting, store,
                       upstream_calls, admitted, served, ticks>>

\* proxy.rs:427-455 and 528-531: the streaming response is handed to the
\* client: status and body stream, no header is attached to it
StreamStart(t) ==
    LET tk == task[t]
    IN  /\ tk.pc = "stream"
        /\ Set(t, [tk EXCEPT !.pc = "streaming",
                             !.resp = Resp(tk.status, "", NoHeader,
                                           [k |-> "stream"])])
        /\ UNCHANGED <<checkVars, clock, requests, settings, dlp_setting, store, rows,
                       upstream_calls, admitted, served, ticks>>

\* proxy.rs:456-477: one chunk arrives, is collected, un-redacted, yielded
StreamChunk(t, order) ==
    LET tk == task[t]
        chunk == Head(tk.pending)
    IN  /\ tk.pc = "streaming"
        /\ tk.pending # <<>>
        /\ order \in IterationOrders(tk.dlp.replacements)
        /\ Set(t, [tk EXCEPT !.pending = Tail(@),
                             !.collected = Append(@, chunk),
                             !.emitted = Append(@,
                                 apply_dlp_unredaction(chunk,
                                     tk.dlp.replacements, order))])
        /\ UNCHANGED <<checkVars, clock, requests, settings, dlp_setting, store, rows,
                       upstream_calls, admitted, served, ticks>>

\* proxy.rs:479-525: the upstream stream ended, the exchange is logged
StreamEnd(t, order, ok) ==
    LET tk == task[t]
        unredacted == apply_dlp_unredaction(Join(tk.collected),
                                            tk.dlp.replacements, order)
    IN  /\ tk.pc = "streaming"
        /\ tk.pending = <<>>
        /\ order \in IterationOrders(tk.dlp.replacements)
        /\ rows' = IF should_log(tk.backend, tk.body)
                     THEN Logged(Row(tk, TextBody(unredacted), tk.status,
                                     TRUE,
                                     classify_streamed(tk.notify_ratelimit,
                                                       tk.dlp.detections),
                                     tk.dlp.detections), ok)
                     ELSE rows
        /\ Set(t, [(IF should_log(tk.backend, tk.body)
                       THEN Attempt(tk, ok) ELSE tk) EXCEPT !.pc = "done"])
        /\ UNCHANGED <<checkVars, clock, requests, settings, dlp_setting, store,
                       upstream_calls, admitted, served, ticks>>

\* the client goes away: the body stream is dropped at its yield point and
\* the code after the loop (proxy.rs:479-525) never runs
ClientDisconnect(t) ==
    LET tk == task[t]
    IN  /\ tk.pc = "streaming"
        /\ Set(t, [tk EXCEPT !.pc = "done", !.pending = <<>>])
        /\ UNCHANGED <<checkVars, clock, requests, settings, dlp_setting, store, rows,
                       upstream_calls, admitted, served, ticks>>

\* the task is over and the runtime serves the next connection with it.
\* rows and upstream_calls keep the rows and calls of the requests still
\* held by a task: the proxy only ever inserts rows, it never reads them
Finish(t) ==
    /\ task[t].pc = "done"
    /\ served < MaxRequests
    /\ Set(t, IdleTask)
    /\ rows' = SelectSeq(rows, LAMBDA r : r.id # task[t].id)
    /\ upstream_calls' = SelectSeq(upstream_calls,
                                   LAMBDA c : c.id # task[t].id)
    /\ UNCHANGED <<checkVars, clock, requests, settings, dlp_setting, store,
                   admitted, served, ticks>>

\* ------------------------------------------------------------------------
\* The DLP engine on one body, and one create_placeholder call
\* ------------------------------------------------------------------------
NoOut == [text |-> <<>>, redacted |-> <<>>, order |-> <<>>, out |-> <<>>,
          again |-> <<>>]
NoPh == [id |-> 0, original |-> <<>>, placeholder |-> <<>>]

DlpIdle ==
    /\ d_pc = "off"
    /\ d_body = [json |-> NotJson, fmt |-> "raw"]
    /\ d_patterns = <<>>
    /\ d_res = NoDlp
    /\ d_out = NoOut

\* apply_dlp_redaction runs on the request body
DlpRedact ==
    /\ d_pc = "input"
    /\ d_res' = apply_dlp_redaction(d_body, d_patterns)
    /\ d_pc' = "redacted"
    /\ UNCHANGED <<d_body, d_patterns, d_out, ph>>
    /\ UNCHANGED proxyVars

\* the upstream echoes the i-th user string as it received it, and
\* apply_dlp_unredaction runs on the echo, visiting the map in `order`
DlpUnredact(i, order) ==
    /\ d_pc = "redacted"
    /\ d_body.json # NotJson
    /\ i \in 1..Len(UserLeaves(d_body.json))
    /\ order \in IterationOrders(d_res.replacements)
    /\ LET sent == UserLeaves(d_res.redacted_body.json)[i]
       IN  d_out' =
             Once(apply_dlp_unredaction(sent, d_res.replacements, order),
                  LAMBDA out :
                    [text |-> UserLeaves(d_body.json)[i],
                     redacted |-> sent, order |-> order, out |-> out,
                     \* the same map applied to the result once more
                     again |-> apply_dlp_unredaction(out, d_res.replacements,
                                                     order)])
    /\ d_pc' = "unredacted"
    /\ UNCHANGED <<d_body, d_patterns, d_res, ph>>
    /\ UNCHANGED proxyVars

PhAlphabet == {97, 116, 84, 55, 45, 233}
Originals == UNION {[1..n -> PhAlphabet] : n \in 0..MaxLen}

MintPlaceholder(id, original) ==
    /\ ph = NoPh
    /\ ph' = [id |-> id, original |-> original,
              placeholder |-> create_placeholder(id, original)]
    /\ UNCHANGED dlpVars
    /\ UNCHANGED proxyVars

\* ------------------------------------------------------------------------
\* Specifications
\* ------------------------------------------------------------------------
DefaultSettings ==
    [dlp_enabled |-> TRUE, rate_limit_requests |-> 0,
     rate_limit_minutes |-> 1, max_tokens_in_a_request |-> 0,
     action_for_max_tokens_in_a_request |-> "block"]

\* start_proxy_server (proxy.rs:624-651): a fresh limiter, no task running
\* ------------------------------------------------------------------------
\* Cursor hooks: the upsert on the requests table (database.rs:371-523).
\* Every call runs under conn.lock(), so each is one step. Timestamps are
\* RFC 3339 strings of UTC instants, which SQLite compares in the order of
\* the instants: they are modelled as epoch seconds.
\* ------------------------------------------------------------------------
MaxHookCalls == 2

\* chrono::Duration::minutes(5), in seconds
HookWindow == 300

GenerationIds == {"g1", "g2"}
HookTokenCounts == {1, 2}
HookStatuses == {200, 403}
HookDlpActions == {DLP_ACTION_PASSED, DLP_ACTION_REDACTED, DLP_ACTION_BLOCKED}
HookSteps == {1, 300}
HookWordCounts == {1, 2}

\* a text, known by the number of its whitespace-separated words;
\* NoText is Option::None
NoText == [k |-> "none", words |-> 0]
Text(w) == [k |-> "text", words |-> w]

\* cursor_hooks.rs:227-229
count_words(text) == text.words

\* cursor_hooks.rs:232-234: (count_words(text) as f32 * 1.5) as i32, a cast
\* that drops the fraction
hook_estimate_tokens(text) == (3 * count_words(text)) \div 2

NoHook ==
    [call |-> "none", generation_id |-> "", count |-> 0,
     response_status |-> 0, dlp_action |-> 0, now |-> 0, before |-> <<>>,
     returned |-> "none", text |-> NoText]

HookCall(call, generation_id, count, response_status, dlp_action, returned) ==
    [call |-> call, generation_id |-> generation_id, count |-> count,
     response_status |-> response_status, dlp_action |-> dlp_action,
     now |-> clock, before |-> rows, returned |-> returned,
     text |-> NoText]

\* the lookup with the window open at the cutoff
cursor_hook_lookup_after_cutoff(generation_id, now) ==
    {i \in 1..Len(rows) :
        /\ rows[i].timestamp > now - HookWindow
        /\ rows[i].backend = "cursor-hooks"
        /\ rows[i].generation_id = generation_id}

\* WHERE timestamp >= cutoff AND backend = 'cursor-hooks' AND
\* json_extract(extra_metadata, '$.generation_id') = generation_id
cursor_hook_lookup(generation_id, now) ==
    {i \in 1..Len(rows) :
        /\ rows[i].timestamp >= now - HookWindow
        /\ rows[i].backend = "cursor-hooks"
        /\ rows[i].generation_id = generation_id}

\* the UPDATE that stores the incoming values
cursor_hook_merge_overwrite(row, input_tokens, response_status, dlp_action) ==
    [row EXCEPT !.input_tokens = @ + input_tokens,
                !.response_status = response_status,
                !.dlp_action = dlp_action]

\* the UPDATE of database.rs:400-408
cursor_hook_merge(row, input_tokens, response_status, dlp_action) ==
    [row EXCEPT !.input_tokens = @ + input_tokens,
                !.response_status = IF response_status > @
                                      THEN response_status ELSE @,
                !.dlp_action = IF dlp_action > @ THEN dlp_action ELSE @]

\* the INSERT of database.rs:413-449
cursor_hook_row(generation_id, endpoint_name, input_tokens, response_status, dlp_action) ==
    [id |-> Len(rows) + 1, timestamp |-> clock, backend |-> "cursor-hooks",
     endpoint_name |-> endpoint_name, generation_id |-> generation_id,
     input_tokens |-> input_tokens, output_tokens |-> 0,
     latency_ms |-> 0, has_thinking |-> FALSE, user_message_count |-> 1,
     assistant_message_count |-> 0, response_status |-> response_status,
     is_streaming |-> FALSE, response_body |-> [k |-> "hook", words |-> 0],
     dlp_action |-> dlp_action]

\* database.rs:371-452 (a statement that fails changes nothing: the call
\* then leaves the table as it found it)
log_cursor_hook_request(generation_id, endpoint_name, input_tokens, response_status, dlp_action) ==
    /\ served < MaxHookCalls
    /\ served' = served + 1
    /\ LET existing == cursor_hook_lookup(generation_id, clock)
       IN  IF existing # {}
             THEN \E id \in existing :
                    /\ rows' = [rows EXCEPT ![id] =
                                  cursor_hook_merge(@, input_tokens,
                                      response_status, dlp_action)]
                    /\ hook' = HookCall("log", generation_id, input_tokens,
                                        response_status, dlp_action,
                                        "updated")
             ELSE /\ rows' = Append(rows,
                                 cursor_hook_row(generation_id, endpoint_name,
                                     input_tokens, response_status,
                                     dlp_action))
                  /\ hook' = HookCall("log", generation_id, input_tokens,
                                      response_status, dlp_action,
                                      "inserted")
    /\ UNCHANGED <<d_pc, d_body, d_patterns, d_res, d_out, ph, clock,
                   requests, settings, dlp_setting, store, task,
                   upstream_calls, admitted, ticks, adminVars>>

\* database.rs:456-501; response_text is Some for after_agent_response and
\* after_tab_file_edit
update_cursor_hook_output(generation_id, output_token_count, response_text) ==
    /\ served < MaxHookCalls
    /\ served' = served + 1
    /\ LET existing == cursor_hook_lookup(generation_id, clock)
       IN  IF existing # {}
             THEN \E id \in existing :
                    /\ rows' = [rows EXCEPT ![id] =
                          [@ EXCEPT
                             !.output_tokens = @ + output_token_count,
                             !.latency_ms = (clock - rows[id].timestamp)
                                               * 1000,
                             !.response_body =
                                 IF response_text # NoText THEN response_text
                                 ELSE @,
                             !.assistant_message_count =
                                 IF response_text # NoText THEN 1 ELSE @]]
                    /\ hook' = [HookCall("output", generation_id,
                                    output_token_count, 0, 0, "true")
                                   EXCEPT !.text = response_text]
             ELSE /\ rows' = rows
                  /\ hook' = [HookCall("output", generation_id,
                                  output_token_count, 0, 0, "false")
                                 EXCEPT !.text = response_text]
    /\ UNCHANGED <<d_pc, d_body, d_patterns, d_res, d_out, ph, clock,
                   requests, settings, dlp_setting, store, task,
                   upstream_calls, admitted, ticks, adminVars>>

\* cursor_hooks.rs:606-625
after_agent_response_handler(generation_id, text) ==
    update_cursor_hook_output(generation_id, hook_estimate_tokens(text), text)

\* database.rs:505-523: one UPDATE over every row the lookup matches
add_cursor_hook_thinking_tokens(generation_id, thinking_word_count) ==
    /\ served < MaxHookCalls
    /\ served' = served + 1
    /\ LET existing == cursor_hook_lookup(generation_id, clock)
       IN  /\ rows' = [i \in 1..Len(rows) |->
                          IF i \in existing
                            THEN [rows[i] EXCEPT
                                    !.output_tokens = @ + thinking_word_count,
                                    !.has_thinking = TRUE]
                            ELSE rows[i]]
           /\ hook' = HookCall("thinking", generation_id,
                               thinking_word_count, 0, 0,
                               IF existing # {} THEN "true" ELSE "false")
    /\ UNCHANGED <<d_pc, d_body, d_patterns, d_res, d_out, ph, clock,
                   requests, settings, dlp_setting, store, task,
                   upstream_calls, admitted, ticks, adminVars>>

\* ------------------------------------------------------------------------
\* Custom backend commands (commands/backends.rs:44-129) on the
\* custom_backends table (database.rs:575-666). A command validates its
\* arguments, asks the database whether the name exists and then writes:
\* the question and the write each take the connection lock on their own.
\* ------------------------------------------------------------------------
MaxCommands == 2
CommandSlots == {1, 2}

\* char::to_lowercase on the letters used here (A-Z and U+00C9)
ToLowercaseChar(c) ==
    IF is_ascii_uppercase(c) THEN c + 32
    ELSE IF c = 201 THEN 233
    ELSE c
to_lowercase(s) == [i \in 1..Len(s) |-> ToLowercaseChar(s[i])]

\* SQLite's built-in LOWER(): ASCII letters only
SqlLowerChar(c) == IF is_ascii_uppercase(c) THEN c + 32 ELSE c
LOWER(s) == [i \in 1..Len(s) |-> SqlLowerChar(s[i])]

\* char::is_alphanumeric on the characters used here
is_alphanumeric(c) ==
    is_ascii_lowercase(c) \/ is_ascii_uppercase(c) \/ is_ascii_digit(c)
        \/ c \in {201, 233}

\* str::trim
RECURSIVE trim_start(_)
trim_start(s) ==
    IF s # <<>> /\ Head(s) = 32 THEN trim_start(Tail(s)) ELSE s
RECURSIVE trim_end(_)
trim_end(s) ==
    IF s # <<>> /\ s[Len(s)] = 32 THEN trim_end(SubSeq(s, 1, Len(s) - 1))
    ELSE s
trim(s) == trim_end(trim_start(s))

\* "claude", "codex", "cursor_hook", "cursor-hooks"
ReservedNames ==
    { <<99, 108, 97, 117, 100, 101>>, <<99, 111, 100, 101, 120>>,
      <<99, 117, 114, 115, 111, 114, 95, 104, 111, 111, 107>>,
      <<99, 117, 114, 115, 111, 114, 45, 104, 111, 111, 107, 115>> }

\* the names a user types: "ab", "Ab", " ab", "a b", "Claude", U+00E9, U+00C9
BackendNames ==
    { <<97, 98>>, <<65, 98>>, <<32, 97, 98>>, <<97, 32, 98>>,
      <<67, 108, 97, 117, 100, 101>>, <<233>>, <<201>> }
BaseUrls == {"https://u", "u"}
SettingsTexts == {"{}", "{"}

\* commands/backends.rs:51-72 and 83-104: the checks made before the
\* database is opened
ValidName(name) ==
    /\ name # <<>>
    /\ \A i \in 1..Len(name) : is_alphanumeric(name[i]) \/ name[i] \in {45, 95}
ValidBaseUrl(base_url) == base_url \in {"https://u"}
ValidSettings(settings_text) == settings_text \in {"{}"}

\* database.rs:633-648
backend_name_exists(name) ==
    \/ to_lowercase(name) \in ReservedNames
    \/ \E i \in 1..Len(custom_backends) :
          LOWER(custom_backends[i].name) = LOWER(name)

\* database.rs:651-666
backend_name_exists_excluding(name, exclude_id) ==
    \/ to_lowercase(name) \in ReservedNames
    \/ \E i \in 1..Len(custom_backends) :
          /\ LOWER(custom_backends[i].name) = LOWER(name)
          /\ custom_backends[i].id # exclude_id

\* the slots in which a command has been invoked
Invoked == DOMAIN command

\* a command is invoked: its arguments are validated
InvokeCommand(s, op, id, name, base_url, settings_text) ==
    /\ s \in Invoked => command[s].pc = "done"
    /\ served < MaxCommands
    /\ served' = served + 1
    /\ LET valid == /\ ValidName(trim(name))
                    /\ ValidBaseUrl(base_url)
                    /\ ValidSettings(settings_text)
           invoked ==
               [pc |-> IF valid THEN "check" ELSE "done", op |-> op,
                id |-> id, name |-> trim(name), base_url |-> base_url,
                settings |-> settings_text,
                result |-> IF valid THEN "none" ELSE "err",
                wrote |-> FALSE]
       IN  command' = [t \in Invoked \cup {s} |->
                          IF t = s THEN invoked ELSE command[t]]
    /\ UNCHANGED <<baseVars, custom_backends>>

\* commands/backends.rs:46-50
add_custom_backend(s, name, base_url, settings_text) ==
    InvokeCommand(s, "add", 0, name, base_url, settings_text)

\* commands/backends.rs:93-98
update_custom_backend(s, id, name, base_url, settings_text) ==
    InvokeCommand(s, "update", id, name, base_url, settings_text)

\* commands/backends.rs:76-79 and 122-125: the name is looked up
CheckName(s) ==
    LET c == command[s]
        exists == IF c.op = "add" THEN backend_name_exists(c.name)
                  ELSE backend_name_exists_excluding(c.name, c.id)
    IN  /\ s \in Invoked
        /\ c.pc = "check"
        /\ command' = [command EXCEPT ![s] =
               IF exists THEN [c EXCEPT !.pc = "done", !.result = "err"]
               ELSE [c EXCEPT !.pc = "write"]]
        /\ UNCHANGED <<baseVars, served, custom_backends>>

\* the UNIQUE constraint on custom_backends.name (database.rs:166): the
\* statement would leave this name in a row other than `id`
NameTaken(name, id) ==
    \E i \in 1..Len(custom_backends) :
        custom_backends[i].name = name /\ custom_backends[i].id # id

\* database.rs:576-591: INSERT; the id is the AUTOINCREMENT rowid
InsertBackend(s) ==
    LET c == command[s]
    IN  /\ s \in Invoked
        /\ c.pc = "write"
        /\ c.op = "add"
        /\ IF NameTaken(c.name, 0)
             THEN /\ custom_backends' = custom_backends
                  /\ command' = [command EXCEPT ![s] =
                         [c EXCEPT !.pc = "done", !.result = "err"]]
             ELSE /\ custom_backends' = Append(custom_backends,
                         [id |-> Len(custom_backends) + 1, name |-> c.name,
                          base_url |-> c.base_url, settings |-> c.settings,
                          enabled |-> TRUE])
                  /\ command' = [command EXCEPT ![s] =
                         [c EXCEPT !.pc = "done", !.result = "ok",
                                   !.wrote = TRUE]]
        /\ UNCHANGED <<baseVars, served>>

\* database.rs:594-609: UPDATE ... WHERE id; no row with the id is not an
\* error
UpdateBackend(s) ==
    LET c == command[s]
        found == \E i \in 1..Len(custom_backends) : custom_backends[i].id = c.id
    IN  /\ s \in Invoked
        /\ c.pc = "write"
        /\ c.op = "update"
        /\ IF found /\ NameTaken(c.name, c.id)
             THEN /\ custom_backends' = custom_backends
                  /\ command' = [command EXCEPT ![s] =
                         [c EXCEPT !.pc = "done", !.result = "err"]]
             ELSE /\ custom_backends' =
                       [i \in 1..Len(custom_backends) |->
                          IF custom_backends[i].id = c.id
                            THEN [custom_backends[i] EXCEPT
                                    !.name = c.name,
                                    !.base_url = c.base_url,
                                    !.settings = c.settings]
                            ELSE custom_backends[i]]
                  /\ command' = [command EXCEPT ![s] =
                         [c EXCEPT !.pc = "done", !.result = "ok",
                                   !.wrote = found]]
        /\ UNCHANGED <<baseVars, served>>

\* ------------------------------------------------------------------------
\* Retention: cleanup_old_data (database.rs:256-273) on the requests and
\* dlp_detections tables. requests.id is AUTOINCREMENT (database.rs:50), so
\* an id is never given twice.
\* ------------------------------------------------------------------------
MaxLogged == 2

\* chrono::Duration::days(7), in seconds
SevenDays == 604800

RetentionSteps == {1, SevenDays}
DetectionCounts == {1, 2}
CleanupOutcomes == {"ok", "first fails", "second fails"}

NoCleanup ==
    [result |-> "none", cutoff |-> 0, rows |-> <<>>, dlp_detections |-> <<>>]

RetentionStart ==
    [sequence |-> 0, pending |-> 0, cleanup |-> NoCleanup]

\* SELECT id FROM requests WHERE timestamp < ?1
old_request_ids(cutoff_ts) ==
    {rows[i].id : i \in {j \in 1..Len(rows) : rows[j].timestamp < cutoff_ts}}

\* detections deleted by their own timestamp
doomed_detection_by_timestamp(detection, cutoff_ts) ==
    detection.timestamp < cutoff_ts

\* DELETE FROM dlp_detections WHERE request_id IN (SELECT id FROM requests
\* WHERE timestamp < ?1)
doomed_detection(detection, cutoff_ts) ==
    detection.request_id \in old_request_ids(cutoff_ts)

\* the two tables after cleanup_old_data: a statement that fails changes
\* nothing and ends the function
cleanup_old_data_tables(outcome, now) ==
    LET cutoff_ts == now - SevenDays
        kept_detections ==
            SelectSeq(dlp_detections,
                      LAMBDA d : ~doomed_detection(d, cutoff_ts))
        kept_rows == SelectSeq(rows, LAMBDA r : ~(r.timestamp < cutoff_ts))
    IN  [rows |-> IF outcome = "ok" THEN kept_rows ELSE rows,
         dlp_detections |-> IF outcome = "first fails" THEN dlp_detections
                            ELSE kept_detections,
         cleanup |-> [result |-> IF outcome = "ok" THEN "ok" ELSE "err",
                      cutoff |-> cutoff_ts, rows |-> rows,
                      dlp_detections |-> dlp_detections]]

\* database.rs:256-273
cleanup_old_data(outcome) ==
    /\ retention.cleanup.result = "none"
    /\ LET after == cleanup_old_data_tables(outcome, clock)
       IN  /\ rows' = after.rows
           /\ dlp_detections' = after.dlp_detections
           /\ retention' = [retention EXCEPT !.cleanup = after.cleanup]
    /\ UNCHANGED <<retentionRest, served>>

\* database.rs:276-335: INSERT INTO requests; the handler keeps the id
log_request(backend) ==
    /\ served < MaxLogged
    /\ served' = served + 1
    /\ rows' = Append(rows, [id |-> retention.sequence + 1,
                             timestamp |-> clock, backend |-> backend])
    /\ retention' = [sequence |-> retention.sequence + 1,
                     pending |-> retention.sequence + 1,
                     cleanup |-> NoCleanup]
    /\ UNCHANGED <<retentionRest, dlp_detections>>

\* database.rs:338-363, called with the id log_request returned
\* (proxy.rs:604-607)
log_dlp_detections(count) ==
    /\ retention.pending # 0
    /\ dlp_detections' = dlp_detections \o
           [k \in 1..count |->
               [id |-> Len(dlp_detections) + k,
                request_id |-> retention.pending, timestamp |-> clock]]
    /\ retention' = [retention EXCEPT !.pending = 0, !.cleanup = NoCleanup]
    /\ UNCHANGED <<retentionRest, rows, served>>

\* ------------------------------------------------------------------------
\* start_proxy_server (proxy.rs:624-831) and the commands save_port_setting
\* and restart_proxy (commands/stats.rs:677-706). The loop runs as one task
\* on its own thread (lib.rs:99-103); each step below is one lock section or
\* one await of the loop. The statics PROXY_PORT, PROXY_STATUS and
\* RESTART_SENDER (lib.rs:69-74) are fields of `lifecycle`.
\* ------------------------------------------------------------------------
MaxEvents == 3

Ports == {8008, 9009}
PortInputs == Ports \cup {80}

Status(k, port) == [k |-> k, port |-> port]

NoRestart ==
    [pending |-> FALSE, port |-> 0, resaved |-> FALSE, names |-> {},
     listener |-> 0]
NoBind ==
    [ok |-> FALSE, port |-> 0, after_restart |-> FALSE, restart |-> NoRestart,
     after_failure |-> FALSE, discarded |-> 0]
NoCall == [result |-> "none", pc |-> "off"]
NoAdmission == [allowed |-> TRUE, admits_before |-> 0]

LifecycleOff == [pc |-> "off"]

\* lib.rs:76-103: the port comes from QPORT or the settings store, the
\* statics hold their initial values and the loop is spawned
LifecycleStart(port, occupied) ==
    [pc |-> "top", PROXY_PORT |-> port, PROXY_STATUS |-> Status("Starting", 0),
     RESTART_SENDER |-> "None", signal |-> FALSE, port |-> 0, listener |-> 0,
     routes |-> {}, inflight |-> 0, occupied |-> occupied,
     restart |-> NoRestart, bind |-> NoBind, call |-> NoCall,
     admits |-> 0, admission |-> NoAdmission]

lifecycleRest == <<clock, settings, dlp_setting, store, task, upstream_calls,
                   admitted, ticks, d_pc, d_body, d_patterns, d_res, d_out,
                   ph, hook, custom_backends, command>>

run(port, occupied) ==
    /\ lifecycle.pc = "off"
    /\ lifecycle' = LifecycleStart(port, occupied)
    /\ UNCHANGED <<lifecycleRest, requests, rows, dlp_detections, retention,
                   served>>

\* the step of the loop at position `pc` that only changes `lifecycle`
LoopStep(pc, next) ==
    /\ lifecycle.pc = pc
    /\ lifecycle' = next
    /\ UNCHANGED <<lifecycleRest, requests, rows, dlp_detections, retention,
                   served>>

\* the port read once, before the loop
previous_port(lc) == IF lc.port = 0 THEN lc.PROXY_PORT ELSE lc.port

\* proxy.rs:627: let port = *PROXY_PORT.lock().unwrap()
current_port(lc) == lc.PROXY_PORT

ReadPort ==
    LoopStep("top", [lifecycle EXCEPT !.pc = "set_starting",
                                      !.port = current_port(lifecycle)])

\* proxy.rs:629-633
SetStarting ==
    LoopStep("set_starting",
             [lifecycle EXCEPT !.pc = "build",
                               !.PROXY_STATUS = Status("Starting", 0)])

\* the limiter of the previous iteration, kept
RateLimiter_kept(old) == old

\* RateLimiter::new (proxy.rs:40-44): no timestamps for any backend
RateLimiter_new(old) == [b \in Backends |-> <<>>]

\* proxy.rs:635-723: the database is opened, cleanup_old_data runs, a new
\* rate limiter is made and the routers of claude, codex and cursor_hook
\* are built around it
Build(outcome) ==
    /\ lifecycle.pc = "build"
    /\ LET after == cleanup_old_data_tables(outcome, clock)
       IN  /\ rows' = after.rows
           /\ dlp_detections' = after.dlp_detections
    /\ requests' = RateLimiter_new(requests)
    /\ lifecycle' = [lifecycle EXCEPT
           !.pc = "load_custom",
           !.admits = 0,
           !.admission = NoAdmission,
           !.bind = [@ EXCEPT !.discarded = Len(requests["claude"])]]
    /\ UNCHANGED <<lifecycleRest, retention, served>>

\* get_enabled_custom_backends (database.rs:553-574)
get_enabled_custom_backends ==
    {custom_backends[i].name :
        i \in {j \in 1..Len(custom_backends) : custom_backends[j].enabled}}

\* proxy.rs:732-772: one route per enabled custom backend
LoadCustomBackends ==
    LoopStep("load_custom",
             [lifecycle EXCEPT !.pc = "bind",
                               !.routes = get_enabled_custom_backends])

\* what PROXY_STATUS holds after a failed bind if it is left alone
bind_failed_status_unset(lc) == lc.PROXY_STATUS

\* proxy.rs:779-782
bind_failed_status(lc) == Status("Failed", lc.port)

\* proxy.rs:774-790: TcpListener::bind(0.0.0.0:port); it fails when another
\* process holds the port
Bind ==
    LET ok == lifecycle.port \notin lifecycle.occupied
        attempt == [ok |-> ok, port |-> lifecycle.port,
                    after_restart |-> lifecycle.restart.pending,
                    restart |-> lifecycle.restart,
                    after_failure |-> /\ ~lifecycle.bind.ok
                                      /\ lifecycle.bind.port = lifecycle.port,
                    discarded |-> lifecycle.bind.discarded]
    IN  LoopStep("bind",
                 IF ok
                   THEN [lifecycle EXCEPT !.pc = "bound",
                                          !.listener = lifecycle.port,
                                          !.bind = attempt,
                                          !.restart = NoRestart]
                   ELSE [lifecycle EXCEPT
                            !.pc = "failed_sleep",
                            !.PROXY_STATUS = bind_failed_status(lifecycle),
                            !.bind = attempt,
                            !.restart = NoRestart])

\* proxy.rs:788: sleep(5 s), then continue
RetryAfterFailure ==
    LoopStep("failed_sleep", [lifecycle EXCEPT !.pc = "top"])

\* proxy.rs:794-797
SetRunning ==
    LoopStep("bound",
             [lifecycle EXCEPT !.pc = "running",
                               !.PROXY_STATUS = Status("Running", lifecycle.port)])

\* proxy.rs:803-808: watch::channel(false); the sender replaces the one in
\* RESTART_SENDER, the receiver goes to the server
SetSender ==
    LoopStep("running",
             [lifecycle EXCEPT !.pc = "serving", !.RESTART_SENDER = "live",
                               !.signal = FALSE])

\* proxy.rs:811-819: the shutdown future sees the value true and ends; the
\* receiver is dropped with it and the listener accepts no more
ReceiveSignal ==
    /\ lifecycle.pc = "serving"
    /\ lifecycle.signal
    /\ LoopStep("serving",
                [lifecycle EXCEPT !.pc = "draining",
                                  !.RESTART_SENDER = "closed"])

\* proxy.rs:821-823: server.await returns when the requests in flight are
\* answered; the listener is dropped
ServerStops ==
    /\ lifecycle.pc = "draining"
    /\ lifecycle.inflight = 0
    /\ LoopStep("draining", [lifecycle EXCEPT !.pc = "restart_sleep",
                                               !.listener = 0])

\* proxy.rs:825-829: sleep(500 ms), then the next iteration
NextIteration ==
    LoopStep("restart_sleep", [lifecycle EXCEPT !.pc = "top"])

\* a command or a request is counted
Event ==
    /\ lifecycle.pc # "off"
    /\ served < MaxEvents
    /\ served' = served + 1

\* commands/stats.rs:677-692
save_port_setting(port) ==
    /\ Event
    /\ lifecycle' =
          IF port < 1024 \/ port > 65535 THEN lifecycle
          ELSE [lifecycle EXCEPT
                  !.PROXY_PORT = port,
                  !.restart = IF @.pending THEN [@ EXCEPT !.resaved = TRUE]
                              ELSE @]
    /\ UNCHANGED <<lifecycleRest, requests, rows, dlp_detections, retention>>

\* commands/stats.rs:694-706: watch::Sender::send fails when no receiver is
\* left
restart_proxy ==
    /\ Event
    /\ lifecycle' =
          IF lifecycle.RESTART_SENDER = "live"
            THEN [lifecycle EXCEPT
                    !.signal = TRUE,
                    !.call = [result |-> "ok", pc |-> lifecycle.pc],
                    !.restart = [pending |-> TRUE,
                                 port |-> lifecycle.PROXY_PORT,
                                 resaved |-> FALSE,
                                 names |-> get_enabled_custom_backends,
                                 listener |-> lifecycle.listener]]
            ELSE [lifecycle EXCEPT
                    !.call = [result |-> "err", pc |-> lifecycle.pc]]
    /\ UNCHANGED <<lifecycleRest, requests, rows, dlp_detections, retention>>

\* a request to /claude is accepted by the running server and reaches the
\* rate limit check of proxy_handler (proxy.rs:200-204)
AcceptRequest ==
    /\ Event
    /\ lifecycle.pc = "serving"
    /\ LET limit == get_rate_limit("claude")
           r == check_and_record(requests["claude"], clock, limit[1], limit[2])
       IN  IF limit[1] = 0
             THEN /\ requests' = requests
                  /\ lifecycle' = [lifecycle EXCEPT
                        !.inflight = @ + 1,
                        !.admission = [allowed |-> TRUE,
                                       admits_before |-> lifecycle.admits]]
             ELSE /\ requests' = [requests EXCEPT !["claude"] = r.timestamps]
                  /\ lifecycle' = [lifecycle EXCEPT
                        !.inflight = @ + 1,
                        !.admits = IF r.allowed THEN @ + 1 ELSE @,
                        !.admission = [allowed |-> r.allowed,
                                       admits_before |-> lifecycle.admits]]
    /\ UNCHANGED <<lifecycleRest, rows, dlp_detections, retention>>

\* the handler of a request in flight returns
FinishRequest ==
    /\ lifecycle.pc \in {"serving", "draining"}
    /\ lifecycle.inflight > 0
    /\ lifecycle' = [lifecycle EXCEPT !.inflight = @ - 1]
    /\ UNCHANGED <<lifecycleRest, requests, rows, dlp_detections, retention,
                   served>>

\* another process releases or takes a port
PortChanges(port) ==
    /\ Event
    /\ port # lifecycle.listener
    /\ lifecycle' = [lifecycle EXCEPT
          !.occupied = IF port \in @ THEN @ \ {port} ELSE @ \cup {port}]
    /\ UNCHANGED <<lifecycleRest, requests, rows, dlp_detections, retention>>

\* the steps of the loop of start_proxy_server
LifecycleLoop ==
    \/ ReadPort
    \/ SetStarting
    \/ \E outcome \in CleanupOutcomes : Build(outcome)
    \/ LoadCustomBackends
    \/ Bind
    \/ RetryAfterFailure
    \/ SetRunning
    \/ SetSender
    \/ ReceiveSignal
    \/ ServerStops
    \/ NextIteration

AdminStart ==
    /\ custom_backends = <<>>
    /\ command = <<>>
    /\ dlp_detections = <<>>
    /\ retention = RetentionStart
    /\ lifecycle = LifecycleOff

ProxyStart(n) ==
    /\ clock = StartClock
    /\ requests = [b \in Backends |-> <<>>]
    /\ store = <<PatKey>>
    /\ task = [t \in 1..n |-> IdleTask]
    /\ rows = <<>>
    /\ upstream_calls = <<>>
    /\ admitted = <<>>
    /\ served = 0
    /\ ticks = 0
    /\ hook = NoHook
    /\ AdminStart

\* the proxy serving requests one after the other, every backend configured
\* alike; concurrent handlers are the subject of SpecRL
Init ==
    /\ ProxyStart(1)
    /\ \E st \in SettingsSpace : settings = [b \in Backends |-> st]
    /\ dlp_setting \in {"block", "redact", "absent"}
    /\ DlpIdle
    /\ ph = NoPh

Next ==
    \/ \E t \in Tasks, b \in Backends, rq \in ProxyRequests : Receive(t, b, rq)
    \/ \E t \in Tasks, b \in Backends : ReceiveFails(t, b)
    \/ \E t \in Tasks : RateUnlimited(t)
    \/ \E t \in Tasks : RateReadClock(t)
    \/ \E t \in Tasks : RateAdmit(t)
    \/ \E t \in Tasks, ok \in BOOLEAN : RateDeny(t, ok)
    \/ \E t \in Tasks : TokenPass(t)
    \/ \E t \in Tasks, ok \in BOOLEAN : TokenBlock(t, ok)
    \/ \E t \in Tasks : DlpPass(t)
    \/ \E t \in Tasks, ok \in BOOLEAN : DlpBlock(t, ok)
    \/ \E t \in Tasks : Dispatch(t)
    \/ \E t \in Tasks : UpstreamFails(t)
    \/ \E t \in Tasks, status \in {200, 500} :
          \E chunks \in ChunkingsOf(UpstreamText(task[t])) :
              UpstreamResponds(t, status, chunks)
    \/ \E t \in Tasks : BufferedReadFails(t)
    \/ \E t \in Tasks, ok \in BOOLEAN :
          \E order \in IterationOrders(task[t].dlp.replacements) :
              BufferedResponse(t, order, ok)
    \/ \E t \in Tasks : StreamStart(t)
    \/ \E t \in Tasks :
          \E order \in IterationOrders(task[t].dlp.replacements) :
              StreamChunk(t, order)
    \/ \E t \in Tasks, ok \in BOOLEAN :
          \E order \in IterationOrders(task[t].dlp.replacements) :
              StreamEnd(t, order, ok)
    \/ \E t \in Tasks : ClientDisconnect(t)
    \/ \E t \in Tasks : Finish(t)
    \/ \E d \in {60} : Tick(d)

Spec == Init /\ [][Next]_vars

\* the rate limiter under concurrent callers: every backend limited to
\* one or two requests per minute
InitRL ==
    /\ ProxyStart(NumCallers)
    /\ \E n \in {1, 2} :
          settings = [b \in Backends |->
                        [DefaultSettings EXCEPT !.rate_limit_requests = n]]
    /\ dlp_setting = "redact"
    /\ DlpIdle
    /\ ph = NoPh

NextRL ==
    \/ \E t \in Tasks :
          Receive(t, "claude", [body |-> UserBody(<<120>>), words |-> 6,
                                stream |-> "none"])
    \/ \E t \in Tasks : RateReadClock(t)
    \/ \E t \in Tasks : RateAdmit(t)
    \/ \E t \in Tasks, ok \in BOOLEAN : RateDeny(t, ok)
    \/ \E d \in TickSteps : Tick(d)

SpecRL == InitRL /\ [][NextRL]_vars

\* the DLP engine on every body and pattern store of the catalogue
InitDlp ==
    /\ ProxyStart(1)
    /\ settings = [b \in Backends |-> DefaultSettings]
    /\ dlp_setting = "redact"
    /\ d_pc = "input"
    /\ d_body \in DlpBodies
    /\ d_patterns \in PatternStores
    /\ d_res = NoDlp
    /\ d_out = NoOut
    /\ ph = NoPh

NextDlp ==
    \/ DlpRedact
    \/ /\ d_pc = "redacted"
       /\ \E i \in 1..(2 * MaxMessages) :
             \E order \in IterationOrders(d_res.replacements) :
                 DlpUnredact(i, order)

SpecDlp == InitDlp /\ [][NextDlp]_vars

\* apply_dlp_redaction alone on every body and pattern store of the catalogue
NextRedact == DlpRedact

SpecRedact == InitDlp /\ [][NextRedact]_vars

\* create_placeholder on every id and original
\* the cursor-hooks endpoints called by the editor, one event at a time
InitHooks ==
    /\ ProxyStart(1)
    /\ settings = [b \in Backends |-> DefaultSettings]
    /\ dlp_setting = "redact"
    /\ DlpIdle
    /\ ph = NoPh

NextHooks ==
    \/ \E g \in GenerationIds, n \in HookTokenCounts, s \in HookStatuses,
          a \in HookDlpActions :
            log_cursor_hook_request(g, "CursorChat", n, s, a)
    \/ \E g \in GenerationIds, w \in HookWordCounts :
            after_agent_response_handler(g, Text(w))
    \/ \E g \in GenerationIds : update_cursor_hook_output(g, 1, NoText)
    \/ \E g \in GenerationIds : add_cursor_hook_thinking_tokens(g, 1)
    \/ \E d \in HookSteps : Tick(d)

SpecHooks == InitHooks /\ [][NextHooks]_vars

\* the backend management commands, two of them possibly in progress
InitBackends ==
    /\ ProxyStart(1)
    /\ settings = [b \in Backends |-> DefaultSettings]
    /\ dlp_setting = "redact"
    /\ DlpIdle
    /\ ph = NoPh

NextBackends ==
    \/ \E s \in CommandSlots, name \in BackendNames, u \in BaseUrls,
          st \in SettingsTexts : add_custom_backend(s, name, u, st)
    \/ \E s \in CommandSlots, id \in 1..MaxCommands, name \in BackendNames,
          u \in BaseUrls, st \in SettingsTexts :
            update_custom_backend(s, id, name, u, st)
    \/ \E s \in CommandSlots : CheckName(s)
    \/ \E s \in CommandSlots : InsertBackend(s)
    \/ \E s \in CommandSlots : UpdateBackend(s)

SpecBackends == InitBackends /\ [][NextBackends]_vars

\* the requests and dlp_detections tables under logging and cleanup
InitRetention ==
    /\ ProxyStart(1)
    /\ settings = [b \in Backends |-> DefaultSettings]
    /\ dlp_setting = "redact"
    /\ DlpIdle
    /\ ph = NoPh

NextRetention ==
    \/ log_request("claude")
    \/ \E n \in DetectionCounts : log_dlp_detections(n)
    \/ \E outcome \in CleanupOutcomes : cleanup_old_data(outcome)
    \/ \E d \in RetentionSteps : Tick(d)

SpecRetention == InitRetention /\ [][NextRetention]_vars

\* the lifecycle loop with the commands, requests and other processes around
\* it. The loop is a task of its own runtime and every handler returns, so
\* both are weakly fair. The clock stands still: every timestamp the
\* limiter holds is inside the window.
InitLifecycle ==
    /\ ProxyStart(1)
    /\ \E n \in {1, 2} :
          settings = [b \in Backends |->
                        [DefaultSettings EXCEPT !.rate_limit_requests = n]]
    /\ dlp_setting = "redact"
    /\ DlpIdle
    /\ ph = NoPh

NextLifecycle ==
    \/ \E port \in Ports, occupied \in SUBSET Ports : run(port, occupied)
    \/ LifecycleLoop
    \/ \E port \in PortInputs : save_port_setting(port)
    \/ restart_proxy
    \/ AcceptRequest
    \/ FinishRequest
    \/ \E port \in Ports : PortChanges(port)
    \/ add_custom_backend(1, <<97, 98>>, "https://u", "{}")
    \/ CheckName(1)
    \/ InsertBackend(1)

SpecLifecycle ==
    /\ InitLifecycle
    /\ [][NextLifecycle]_vars
    /\ WF_vars(LifecycleLoop)
    /\ WF_vars(FinishRequest)

InitPh ==
    /\ ProxyStart(1)
    /\ settings = [b \in Backends |-> DefaultSettings]
    /\ dlp_setting = "redact"
    /\ DlpIdle
    /\ ph = NoPh

NextPh == \E id \in 1..MaxId, original \in Originals : MintPlaceholder(id, original)

SpecPh == InitPh /\ [][NextPh]_vars

\* ========================================================================
\* Properties
\* ========================================================================

\* indices of admitted requests of backend b stamped in (t - W*60, t]
AdmittedIn(b, t, window_minutes) ==
    {i \in 1..Len(admitted) :
        /\ admitted[i][1] = b
        /\ admitted[i][2] > t - window_minutes * 60
        /\ admitted[i][2] <= t}

\* C1: for a backend limited to N > 0 requests per W minutes, at every
\* instant t at most N admitted requests carry a timestamp in (t - W*60, t].
C1_SlidingWindow ==
    \A b \in Backends :
        get_rate_limit(b)[1] > 0 =>
            \A t \in StartClock..clock :
                Cardinality(AdmittedIn(b, t, get_rate_limit(b)[2]))
                    <= get_rate_limit(b)[1]

\* C2: un-redacting the echo of a redacted user string gives back the
\* original string, whatever order the map's entries are visited in.
C2_RoundTrip ==
    d_pc = "unredacted" => d_out.out = d_out.text

Contains(text, part) == \E i \in 1..Len(text) : IsAt(part, text, i)

\* C4: every minted placeholder differs from its original, and a request
\* with one user string and one detection is sent without that original.
C4_PlaceholderDiffers ==
    d_pc = "redacted" =>
        /\ \A p \in DOMAIN d_res.replacements : d_res.replacements[p] # p
        /\ (Len(d_res.detections) = 1 /\ Len(UserLeaves(d_body.json)) = 1) =>
              ~Contains(UserLeaves(d_res.redacted_body.json)[1],
                        d_res.detections[1].original_value)

\* the request body with every user-authored value blanked out
MaskMessage(m) == IF IsUserMessage(m) THEN SetKey(m, "content", JNum) ELSE m
MaskItem(it) ==
    IF UserKeyOfItem(it) # "" THEN SetKey(it, UserKeyOfItem(it), JNum) ELSE it
MaskArray(json, key, Mask(_)) ==
    IF HasArray(json, key)
      THEN SetKey(json, key,
                  JArr([i \in 1..Len(Get(json, key).a) |->
                            Mask(Get(json, key).a[i])]))
      ELSE json
OutsideUserContent(json) ==
    MaskArray(MaskArray(json, "messages", MaskMessage), "input", MaskItem)

\* C3: apply_dlp_redaction changes nothing outside the content of user
\* messages and the output of function_call_output items: system prompt,
\* non-user messages, reasoning and function_call items keep their values.
C3_UserOnlyScope ==
    (d_pc = "redacted" /\ d_body.json # NotJson) =>
        OutsideUserContent(d_res.redacted_body.json)
            = OutsideUserContent(d_body.json)

\* a user string was redacted while an assistant message carrying the same
\* secret was sent as it is
C3_Witness ==
    /\ d_pc = "redacted"
    /\ HasOriginal(d_res.replacements, <<97, 55>>)
    /\ d_res.redacted_body.json # d_body.json
    /\ HasArray(d_body.json, "messages")
    /\ \E i \in 1..Len(Get(d_body.json, "messages").a) :
          LET m == Get(d_res.redacted_body.json, "messages").a[i]
          IN  /\ StrOrEmpty(m, "role") = S_assistant
              /\ Get(m, "content") = JStr(<<97, 55>>)

CharClass(c) ==
    IF is_ascii_lowercase(c) THEN "lower"
    ELSE IF is_ascii_uppercase(c) THEN "upper"
    ELSE IF is_ascii_digit(c) THEN "digit"
    ELSE "other"

\* C5: a placeholder has the length of its original and, position by
\* position, the same character class; characters of class other are kept.
C5_ShapePreserved ==
    ph # NoPh =>
        /\ Len(ph.placeholder) = Len(ph.original)
        /\ \A i \in 1..Len(ph.original) :
              /\ CharClass(ph.placeholder[i]) = CharClass(ph.original[i])
              /\ CharClass(ph.original[i]) = "other" =>
                    ph.placeholder[i] = ph.original[i]

\* a placeholder was minted for an original with a digit, a letter and a
\* non-ASCII character, and it differs from the original
C5_Witness ==
    /\ ph.original = <<55, 97, 233>>
    /\ ph.placeholder # ph.original

\* the request of task tk was denied by a policy stage: the handler
\* returned a synthesized 429 or 400 error
Denied(tk) ==
    /\ tk.resp # NoResp
    /\ tk.resp.status \in {429, 400}
    /\ tk.resp.body.k = "error"

DeniedAt(tk) ==
    IF tk.resp.body.code = "rate_limit_exceeded" THEN <<"rate">>
    ELSE IF tk.resp.body.code = "token_limit_exceeded" THEN <<"rate", "token">>
    ELSE <<"rate", "token", "dlp">>

StageOrder == <<"rate", "token", "dlp", "upstream">>

\* C6: the stages of a request are evaluated in the order rate limiter,
\* token budget, DLP gate, upstream; a request a stage denied has evaluated
\* no later stage and is never dispatched to the upstream.
C6_FixedOrderFirstDenialEnds ==
    \A t \in Tasks :
        LET tk == task[t]
        IN  /\ Len(tk.stages) <= Len(StageOrder)
            /\ tk.stages = SubSeq(StageOrder, 1, Len(tk.stages))
            /\ Denied(tk) =>
                  /\ tk.stages = DeniedAt(tk)
                  /\ \A i \in 1..Len(upstream_calls) :
                        upstream_calls[i].id # tk.id

\* the second request served is denied by the token budget: it passed the
\* rate limiter, and neither the DLP gate nor the upstream saw it
C6_Witness ==
    \E t \in Tasks :
        /\ Denied(task[t])
        /\ task[t].resp.body.code = "token_limit_exceeded"
        /\ task[t].stages = <<"rate", "token">>
        /\ task[t].id = 2
        /\ task[t].pc = "done"

RowsOf(tk) == {i \in 1..Len(rows) : rows[i].id = tk.id}

IsDenialRow(r, tk) ==
    /\ r.response_body = tk.resp.body
    /\ r.response_status = tk.resp.status
    /\ r.dlp_action = IF tk.resp.status = 429 THEN DLP_ACTION_RATELIMITED
                      ELSE DLP_ACTION_BLOCKED

ExpectedOutcome(notify_ratelimit, detections) ==
    CHOOSE a \in {DLP_ACTION_NOTIFY_RATELIMIT, DLP_ACTION_REDACTED,
                  DLP_ACTION_PASSED} :
        /\ a = DLP_ACTION_NOTIFY_RATELIMIT
              <=> (notify_ratelimit /\ Len(detections) = 0)
        /\ a = DLP_ACTION_REDACTED <=> Len(detections) > 0

\* C8: a transport failure of the upstream call answers 502 and leaves a
\* record with response_status 502 and the outcome classified as for a
\* normal response.
C8_TransportErrorLogged ==
    \A t \in Tasks :
        LET tk == task[t]
        IN  (/\ tk.pc = "done"
             /\ tk.resp # NoResp
             /\ tk.resp.body.k \in {"proxy_error", "read_error"}
             /\ should_log(tk.backend, tk.body)) =>
                /\ tk.resp.status = 502
                /\ \E i \in RowsOf(tk) :
                      /\ rows[i].response_status = 502
                      /\ rows[i].dlp_action =
                            ExpectedOutcome(tk.notify_ratelimit,
                                            tk.dlp.detections)

\* C9: every 429 denial, by the rate limiter or by the token budget,
\* carries Retry-After equal to the rate-limit window in seconds.
C9_RetryAfterOnEvery429 ==
    \A t \in Tasks :
        (Denied(task[t]) /\ task[t].resp.status = 429) =>
            task[t].resp.retry_after
                = get_rate_limit(task[t].backend)[2] * 60

\* C10: the record of a request that got an upstream response carries
\* NOTIFY_RATELIMIT iff the notify flag is set and there is no detection,
\* otherwise REDACTED iff there is a detection, otherwise PASSED, on the
\* streaming and on the buffered path alike, and never BLOCKED or
\* RATELIMITED.
C10_OutcomeClassification ==
    \A t \in Tasks : \A i \in RowsOf(task[t]) :
        rows[i].response_body.k = "text" =>
            /\ rows[i].dlp_action =
                  ExpectedOutcome(task[t].notify_ratelimit,
                                  rows[i].detections)
            /\ rows[i].detections = task[t].dlp.detections
            /\ rows[i].dlp_action
                  \notin {DLP_ACTION_BLOCKED, DLP_ACTION_RATELIMITED}

\* a streamed response recorded as REDACTED although the notify flag is set
C10_Witness ==
    \E t \in Tasks : \E i \in RowsOf(task[t]) :
        /\ rows[i].is_streaming
        /\ rows[i].response_body.k = "text"
        /\ task[t].notify_ratelimit
        /\ rows[i].detections # <<>>
        /\ rows[i].dlp_action = DLP_ACTION_REDACTED

\* ---------------------------------------------------------------------
\* the token budget (proxy.rs:245-294)

HasStage(tk, s) == \E i \in 1..Len(tk.stages) : tk.stages[i] = s

\* the least integer not below words * 1.5
CeilTokens(words) ==
    CHOOSE n \in 0..(2 * words) :
        /\ 2 * n >= 3 * words
        /\ 2 * (n - 1) < 3 * words

OverBudget(tk) ==
    /\ tk.should_log
    /\ get_max_tokens_limit(tk.backend)[1] > 0
    /\ CeilTokens(tk.words) > get_max_tokens_limit(tk.backend)[1]

DeniedByTokens(tk) ==
    /\ tk.pc = "done"
    /\ tk.resp # NoResp
    /\ tk.resp.status = 429
    /\ tk.resp.body = TokenLimitError

CallsOf(tk) == {i \in 1..Len(upstream_calls) : upstream_calls[i].id = tk.id}

\* C11: once the token stage has run on a request: if the request is logged,
\* the budget is positive and ceil(words * 1.5) exceeds it, then under the
\* action "block" the request is answered 429 and never reaches the
\* upstream, and under "notify" it is not denied by this stage, carries the
\* notify flag, reaches the upstream whenever it ends without a denial, and
\* its record is stamped NOTIFY_RATELIMIT when it has no detections;
\* otherwise the stage neither denies nor sets the notify flag
C11_TokenBudgetAdmission ==
    \A t \in Tasks :
        LET tk == task[t]
            action == get_max_tokens_limit(tk.backend)[2]
        IN  HasStage(tk, "token") =>
              /\ (OverBudget(tk) /\ action = "block") =>
                    /\ DeniedByTokens(tk)
                    /\ CallsOf(tk) = {}
                    /\ ~HasStage(tk, "upstream")
              /\ (OverBudget(tk) /\ action # "block") =>
                    /\ ~DeniedByTokens(tk)
                    /\ tk.notify_ratelimit
                    /\ (tk.pc = "done" /\ ~Denied(tk)) => CallsOf(tk) # {}
                    /\ \A i \in RowsOf(tk) :
                          (rows[i].response_body.k = "text"
                             /\ rows[i].detections = <<>>) =>
                              rows[i].dlp_action = DLP_ACTION_NOTIFY_RATELIMIT
              /\ ~OverBudget(tk) =>
                    /\ ~DeniedByTokens(tk)
                    /\ ~tk.notify_ratelimit

\* a request over its budget under "notify" that reached the upstream and
\* was recorded as NOTIFY_RATELIMIT
C11_Witness ==
    \E t \in Tasks : \E i \in RowsOf(task[t]) :
        /\ OverBudget(task[t])
        /\ get_max_tokens_limit(task[t].backend)[2] = "notify"
        /\ task[t].notify_ratelimit
        /\ CallsOf(task[t]) # {}
        /\ rows[i].detections = <<>>
        /\ rows[i].dlp_action = DLP_ACTION_NOTIFY_RATELIMIT

\* ---------------------------------------------------------------------
\* the streaming path (proxy.rs:384-531)

OnStreamingPath(tk) == tk.pc \in {"stream", "streaming"}

\* C12: once the upstream has answered, the request is on the streaming
\* path exactly when its raw body bytes contain "stream":true or
\* "stream": true
C12_StreamingIffStreamTrue ==
    \A t \in Tasks :
        task[t].pc \in {"stream", "streaming", "buffer"} =>
            (OnStreamingPath(task[t]) <=>
                \/ Contains(body_bytes(task[t]), B_stream_true)
                \/ Contains(body_bytes(task[t]), B_stream_space_true))

\* C13: the response returned on the streaming path has Content-Type
\* text/event-stream
C13_StreamingResponseHeaders ==
    \A t \in Tasks :
        (task[t].resp # NoResp /\ task[t].resp.body.k = "stream") =>
            task[t].resp.content_type = "text/event-stream"

\* C14: when the exchange of a streaming request that passes should_log is
\* over (the upstream ended the stream or the client went away and the
\* stream was dropped), its record has been written, or its best-effort
\* write was attempted and failed
C14_StreamEventuallyLogged ==
    \A t \in Tasks :
        LET tk == task[t]
        IN  (/\ tk.pc = "done"
             /\ tk.resp # NoResp
             /\ tk.resp.body.k = "stream"
             /\ tk.should_log) =>
                (RowsOf(tk) # {} \/ tk.log_failed)

\* C15: a DLP block is answered with a Claude-shaped body on the Claude
\* backend and an OpenAI-shaped body on Codex and on custom backends, and
\* the message names exactly the distinct detected patterns
C15_DlpBlockShapeByFamily ==
    \A t \in Tasks :
        LET tk == task[t]
        IN  (tk.pc = "done" /\ Denied(tk) /\ tk.resp.status = 400) =>
              /\ tk.resp.body.shape =
                    (IF tk.backend = "claude" THEN "claude" ELSE "openai")
              /\ tk.resp.body.names =
                    {tk.dlp.detections[i].pattern_name :
                         i \in 1..Len(tk.dlp.detections)}

\* ---------------------------------------------------------------------
\* order, determinism and idempotence of the DLP functions (dlp.rs)

\* C16: un-redaction substitutes the placeholders in descending order of
\* their length, and its result is the same for every storage order of
\* the map
C16_LongestPlaceholderFirst ==
    d_pc = "unredacted" =>
        /\ \A i, j \in 1..Len(d_out.order) :
              i < j => Len(d_out.order[i]) >= Len(d_out.order[j])
        /\ \A order \in IterationOrders(d_res.replacements) :
              apply_dlp_unredaction(d_out.redacted, d_res.replacements,
                                    order) = d_out.out

\* the placeholders the lookup by value of dlp.rs:400-402 can return for
\* `matched`, one per iteration order of the map
PlaceholdersOf(replacements, matched) ==
    {k \in DOMAIN replacements : replacements[k] = matched}

\* the last detection that was given placeholder k
LastDetectionOf(detections, k) ==
    CHOOSE i \in 1..Len(detections) :
        /\ detections[i].placeholder = k
        /\ \A j \in (i + 1)..Len(detections) : detections[j].placeholder # k

\* C17: the outcome of apply_dlp_redaction is fixed by the body and the
\* patterns: no original has two placeholders, so the lookup by value has
\* one outcome whatever the iteration order of the map; the i-th detection
\* carries the placeholder made from its ordinal and its original; and the
\* map is the one the detection list determines
C17_RedactionDeterministic ==
    d_pc = "redacted" =>
        LET map == d_res.replacements
            detections == d_res.detections
        IN  /\ \A k \in DOMAIN map :
                  PlaceholdersOf(map, map[k]) = {k}
            /\ \A i \in 1..Len(detections) :
                  detections[i].placeholder =
                      create_placeholder(InitialRedactState.counter + i - 1,
                                         detections[i].original_value)
            /\ DOMAIN map =
                  {detections[i].placeholder : i \in 1..Len(detections)}
            /\ \A k \in DOMAIN map :
                  map[k] = detections[LastDetectionOf(detections, k)]
                               .original_value

\* a body whose two user strings hold the same secret: the second one is
\* given the placeholder found in the map
C17_Witness ==
    /\ d_pc = "redacted"
    /\ d_body.json # NotJson
    /\ Len(UserLeaves(d_body.json)) = 2
    /\ UserLeaves(d_body.json)[1] = UserLeaves(d_body.json)[2]
    /\ Len(d_res.detections) = 1
    /\ UserLeaves(d_res.redacted_body.json)[1]
          = d_res.detections[1].placeholder
    /\ UserLeaves(d_res.redacted_body.json)[2]
          = d_res.detections[1].placeholder

\* C18: un-redacting the un-redacted text once more with the same map
\* changes nothing
C18_UnredactionIdempotent ==
    d_pc = "unredacted" => d_out.again = d_out.out

\* ---------------------------------------------------------------------
\* the cursor-hooks upsert (database.rs:371-523)

MaxOf(a, b) == IF a > b THEN a ELSE b

\* the records of hook.generation_id that the call found in its window
FoundBefore ==
    {i \in 1..Len(hook.before) :
        /\ hook.before[i].backend = "cursor-hooks"
        /\ hook.before[i].generation_id = hook.generation_id
        /\ hook.now - hook.before[i].timestamp <= 5 * 60}

\* C19: no call lowers the dlp_action, the response_status or the
\* input_tokens of a stored record, and a logged event that finds the
\* record of its generation leaves in it the maximum of the stored and the
\* incoming dlp_action, the maximum of the stored and the incoming
\* response_status, and the stored input_tokens plus the event's count
C19_MonotoneMerge ==
    hook.call # "none" =>
        /\ Len(rows) >= Len(hook.before)
        /\ \A i \in 1..Len(hook.before) :
              /\ rows[i].dlp_action >= hook.before[i].dlp_action
              /\ rows[i].response_status >= hook.before[i].response_status
              /\ rows[i].input_tokens >= hook.before[i].input_tokens
        /\ (hook.call = "log" /\ FoundBefore # {}) =>
              /\ Len(rows) = Len(hook.before)
              /\ \E i \in FoundBefore :
                    /\ rows[i].dlp_action =
                          MaxOf(hook.before[i].dlp_action, hook.dlp_action)
                    /\ rows[i].response_status =
                          MaxOf(hook.before[i].response_status,
                                hook.response_status)
                    /\ rows[i].input_tokens =
                          hook.before[i].input_tokens + hook.count
                    /\ \A j \in 1..Len(rows) :
                          j # i => rows[j] = hook.before[j]

\* an event with a lower dlp_action and a lower status than the stored ones
C19_Witness ==
    /\ hook.call = "log"
    /\ \E i \in FoundBefore :
          /\ hook.dlp_action < hook.before[i].dlp_action
          /\ hook.response_status < hook.before[i].response_status
          /\ rows[i].input_tokens
                = hook.before[i].input_tokens + hook.count

C21_OutputTokensCeil ==
    (hook.call = "output" /\ hook.text # NoText /\ FoundBefore # {}) =>
        \E i \in FoundBefore :
            /\ rows[i].output_tokens =
                  hook.before[i].output_tokens + CeilTokens(hook.text.words)
            /\ rows[i].response_body = hook.text
            /\ rows[i].assistant_message_count = 1

\* ---------------------------------------------------------------------
\* custom backend names (commands/backends.rs, database.rs:633-666)

\* equality of two names up to the case of their letters
EqualIgnoringCase(a, b) == to_lowercase(a) = to_lowercase(b)

\* C22: no stored custom backend has a reserved name in any case, no two
\* stored custom backends have names equal up to case, and a rejected add
\* or update has written nothing
C22_ReservedAndUniqueNames ==
    /\ \A i \in 1..Len(custom_backends) :
          \A r \in ReservedNames :
              ~EqualIgnoringCase(custom_backends[i].name, r)
    /\ \A i, j \in 1..Len(custom_backends) :
          i # j => ~EqualIgnoringCase(custom_backends[i].name,
                                      custom_backends[j].name)
    /\ \A s \in Invoked :
          command[s].result = "err" => ~command[s].wrote

\* ---------------------------------------------------------------------
\* retention (database.rs:256-273)

\* the ids of the requests the last cleanup deleted
DeletedIds ==
    {retention.cleanup.rows[i].id : i \in 1..Len(retention.cleanup.rows)}
        \ {rows[i].id : i \in 1..Len(rows)}

\* the request a detection row of the last cleanup's table belonged to
ParentOf(detection) ==
    {i \in 1..Len(retention.cleanup.rows) :
        retention.cleanup.rows[i].id = detection.request_id}

\* C25: after a cleanup_old_data that returned Ok no request older than 7
\* days remains, no detection refers to a deleted request, and every
\* request newer than 7 days, and every detection of such a request
\* whatever its own timestamp, is still there unchanged
C25_RetentionCascade ==
    LET c == retention.cleanup
    IN  c.result = "ok" =>
          /\ \A i \in 1..Len(rows) : ~(rows[i].timestamp < c.cutoff)
          /\ \A k \in 1..Len(dlp_detections) :
                dlp_detections[k].request_id \notin DeletedIds
          /\ \A i \in 1..Len(c.rows) :
                c.rows[i].timestamp > c.cutoff =>
                    \E j \in 1..Len(rows) : rows[j] = c.rows[i]
          /\ \A k \in 1..Len(c.dlp_detections) :
                (\E i \in ParentOf(c.dlp_detections[k]) :
                    c.rows[i].timestamp > c.cutoff) =>
                    \E j \in 1..Len(dlp_detections) :
                        dlp_detections[j] = c.dlp_detections[k]

\* a cleanup deleted a request whose detection is newer than the cutoff, and
\* kept another request with its detections
C25_Witness ==
    LET c == retention.cleanup
    IN  /\ c.result = "ok"
        /\ DeletedIds # {}
        /\ \E k \in 1..Len(c.dlp_detections) :
              /\ c.dlp_detections[k].request_id \in DeletedIds
              /\ c.dlp_detections[k].timestamp >= c.cutoff
        /\ Len(rows) > 0
        /\ Len(dlp_detections) > 0

\* ---------------------------------------------------------------------
\* the lifecycle of the proxy server (proxy.rs:624-831)

\* the loop has just tried to bind, for the first time since a restart_proxy
\* that returned Ok
BoundAfterRestart ==
    /\ lifecycle.pc \in {"bound", "failed_sleep"}
    /\ lifecycle.bind.after_restart

StatusIs(k, port) ==
    /\ lifecycle.pc # "off"
    /\ lifecycle.PROXY_STATUS = Status(k, port)

\* the last bind failed on `port` and the loop has not read another port
\* since
Retrying(port) ==
    /\ StatusIs("Failed", port)
    /\ lifecycle.port = port

\* the configured port is `port` and no other process holds it
Bindable(port) ==
    /\ lifecycle.pc # "off"
    /\ lifecycle.PROXY_PORT = port
    /\ port \notin lifecycle.occupied

C28_FreshLimiterPerIteration ==
    lifecycle.pc # "off" =>
        /\ lifecycle.pc \in {"load_custom", "bind", "bound", "running", "failed_sleep"} =>
              \A b \in Backends : requests[b] = <<>>
        /\ Len(requests["claude"]) <= lifecycle.admits
        /\ ~lifecycle.admission.allowed =>
              lifecycle.admission.admits_before >= get_rate_limit("claude")[1]

\* a request is admitted after a restart that discarded a full window of
\* timestamps, none of them older than the window
C28_Witness ==
    /\ lifecycle.pc = "serving"
    /\ lifecycle.bind.after_restart
    /\ lifecycle.bind.discarded = get_rate_limit("claude")[1]
    /\ lifecycle.admission.allowed
    /\ lifecycle.admits = 1
    /\ requests["claude"] = <<clock>>

\* ---------------------------------------------------------------------
\* apply_dlp_redaction on bodies it has nothing to redact in (dlp.rs:151-160,
\* 243-252)

\* the body is not JSON, or JSON without a messages[] and an input[] array
NothingToScan(body) ==
    \/ body.json = NotJson
    \/ /\ ~HasArray(body.json, "messages")
       /\ ~HasArray(body.json, "input")

\* C26: for a body that is not JSON, or is JSON with neither a messages[]
\* nor an input[] array, apply_dlp_redaction returns the body it was given,
\* byte for byte, with an empty map and no detections
C26_PassThrough ==
    (d_pc = "redacted" /\ NothingToScan(d_body)) =>
        /\ d_res.redacted_body = d_body
        /\ d_res.replacements = EmptyMap
        /\ d_res.detections = <<>>

\* C27: after apply_dlp_redaction there is one detection per map entry, every
\* detection is the map entry of its placeholder, and no two detections
\* have the same original_value
C27_OneDetectionPerOriginal ==
    d_pc = "redacted" =>
        /\ Len(d_res.detections) = Cardinality(DOMAIN d_res.replacements)
        /\ \A i \in 1..Len(d_res.detections) :
              /\ d_res.detections[i].placeholder \in DOMAIN d_res.replacements
              /\ d_res.replacements[d_res.detections[i].placeholder] =
                    d_res.detections[i].original_value
        /\ \A i, j \in 1..Len(d_res.detections) :
              i # j => d_res.detections[i].original_value #
                         d_res.detections[j].original_value

\* the number of times x occurs in seq
Occurrences(seq, x) == Cardinality({i \in 1..Len(seq) : seq[i] = x})

\* a request the limiter admitted (it reached the token stage behind a
\* limit above 0) and that was then denied by the token-budget block or the
\* DLP block, or failed upstream
DeniedAfterAdmission(tk) ==
    /\ tk.pc = "done"
    /\ get_rate_limit(tk.backend)[1] > 0
    /\ \/ tk.resp = token_limited_response
       \/ tk.resp.status = 400 /\ tk.stages # <<>>
             /\ tk.stages[Len(tk.stages)] = "dlp"
       \/ tk.resp.status = 502 /\ tk.stages # <<>>
             /\ tk.stages[Len(tk.stages)] = "upstream"

\* what the limiter holds is what it admitted: for every backend and every
\* timestamp still inside the window, the Vec holds the timestamp once per
\* admitted request, whatever became of the request afterwards
C29_WindowHoldsAdmitted ==
    \A b \in Backends :
        /\ \A i \in 1..Len(admitted) :
              (admitted[i][1] = b
                 /\ admitted[i][2] > clock - get_rate_limit(b)[2] * 60) =>
                    Occurrences(requests[b], admitted[i][2]) =
                        Occurrences(admitted, admitted[i])
        /\ \A i \in 1..Len(requests[b]) :
              Occurrences(admitted, <<b, requests[b][i]>>) >=
                  Occurrences(requests[b], requests[b][i])
        /\ get_rate_limit(b)[1] = 0 => requests[b] = <<>>
        /\ check_and_record(requests[b], clock, 0, get_rate_limit(b)[2]) =
              [timestamps |-> requests[b], allowed |-> TRUE]
        /\ \A t \in Tasks :
              (DeniedAfterAdmission(task[t]) /\ task[t].backend = b
                 /\ task[t].now > clock - get_rate_limit(b)[2] * 60) =>
                    Occurrences(requests[b], task[t].now) >= 1

\* the steps of the handler and the timestamp lists
C29_SlotSteps ==
    /\ \A t \in Tasks :
          \* denied by the limiter: no timestamp is added
          /\ (task[t].pc = "rate_lock" /\ task'[t].pc = "done") =>
                /\ task'[t].resp.status = 429
                /\ admitted' = admitted
                /\ Len(requests'[task[t].backend]) <=
                      Len(requests[task[t].backend])
                /\ \A ts \in 0..(clock + 1) :
                      Occurrences(requests'[task[t].backend], ts) <=
                          Occurrences(requests[task[t].backend], ts)
          \* denied after the limiter admitted it: nothing is given back
          /\ (task[t].pc \in {"token", "dlp", "sent"}
                /\ task'[t].pc = "done") => requests' = requests
          \* no limit: nothing is recorded
          /\ (task[t].pc = "rate" /\ task'[t].pc = "token") =>
                requests' = requests /\ admitted' = admitted
    \* a backend's list changes only in a check_and_record call for it
    /\ \A b \in Backends :
          requests'[b] # requests[b] =>
              \E t \in Tasks :
                  /\ task[t].pc = "rate_lock"
                  /\ task[t].backend = b
                  /\ task'[t].pc \in {"token", "done"}
                  /\ \A c \in Backends \ {b} : requests'[c] = requests[c]

\* C29: a request the limiter denies adds no timestamp; a request it admits
\* keeps its timestamp in the window when the token-budget block or the DLP
\* block denies it or the upstream fails; a check_and_record call changes
\* the list of its own backend only; with max_requests = 0 nothing is
\* recorded
C29_SlotAccounting == []C29_WindowHoldsAdmitted /\ [][C29_SlotSteps]_vars

\* a request admitted by the limiter has been denied by the token-budget
\* block, and its timestamp is the one the backend's window holds
C29_Witness ==
    \E t \in Tasks :
        /\ DeniedAfterAdmission(task[t])
        /\ task[t].resp = token_limited_response
        /\ requests[task[t].backend] = <<task[t].now>>
        /\ admitted = <<<<task[t].backend, task[t].now>>>>

\* the request of task tk has been through the DLP gate
PastDlpGate(tk) == \E i \in 1..Len(tk.stages) : tk.stages[i] = "dlp"

\* the gate denied the request of task tk: 400, and nothing was sent upstream
DeniedByDlpGate(tk) ==
    /\ tk.pc = "done"
    /\ tk.resp.status = 400
    /\ tk.stages[Len(tk.stages)] = "dlp"
    /\ \A i \in 1..Len(upstream_calls) : upstream_calls[i].id # tk.id

C30_GateOutcome ==
    \A t \in Tasks :
        PastDlpGate(task[t]) =>
            /\ (is_dlp_enabled(task[t].backend)
                  /\ dlp_setting \in {"absent", "block"}
                  /\ task[t].dlp.detections # <<>>) =>
                    DeniedByDlpGate(task[t])
            /\ ~is_dlp_enabled(task[t].backend) =>
                  /\ ~DeniedByDlpGate(task[t])
                  /\ task[t].dlp.redacted_body = task[t].body
                  /\ task[t].dlp.detections = <<>>
                  /\ task[t].dlp.replacements = EmptyMap

C30_GateStep ==
    \A t \in Tasks :
        (task[t].pc = "dlp" /\ task'[t].pc # "dlp") =>
            /\ (is_dlp_enabled(task[t].backend)
                  /\ dlp_setting \in {"absent", "block"}
                  /\ apply_dlp_redaction(task[t].body, store).detections
                        # <<>>) =>
                    /\ task'[t].pc = "done"
                    /\ task'[t].resp.status = 400
                    /\ upstream_calls' = upstream_calls
            /\ ~is_dlp_enabled(task[t].backend) =>
                  /\ task'[t].pc = "dispatch"
                  /\ task'[t].dlp.redacted_body = task[t].body
                  /\ rows' = rows

\* C30: with the dlp_action setting absent or unreadable the gate acts as
\* with "block": a request with a detection on a DLP-enabled backend is
\* answered 400 and not sent upstream; on a backend with DLP disabled the
\* gate neither denies nor changes a request, whatever the setting
C30_DlpGateFailsClosed == []C30_GateOutcome /\ [][C30_GateStep]_vars

\* the setting is absent and a request with a detection has been denied
\* with 400 on a DLP-enabled backend, nothing having been sent upstream
C30_Witness ==
    /\ dlp_setting = "absent"
    /\ \E t \in Tasks :
          /\ is_dlp_enabled(task[t].backend)
          /\ task[t].dlp.detections # <<>>
          /\ DeniedByDlpGate(task[t])
          /\ upstream_calls = <<>>
====
